----------------------------- MODULE AnswersProofs -----------------------------
(* For any window, minimum and step of the history and any thresholds of the   *)
(* summary: what is replied with stays in place between replies, and nothing   *)
(* falls between the summary and the history. For any skill files, log and     *)
(* links: a command runs the skill that was named, with the arguments that     *)
(* were given, and is made from what matches best.                             *)
EXTENDS Answers, DataFacts, FunctionTheorems

-----------------------------------------------------------------------------
(* Positions                                                                   *)

LEMMA StepDownBounds ==
  ASSUME NEW n \in Nat
  PROVE  StepDown(n) \in Nat /\ StepDown(n) <= n /\ n < StepDown(n) + HistoryStep
  BY HistoryAssumption DEF StepDown

LEMMA StepDownRises ==
  ASSUME NEW m \in Nat, NEW n \in Nat, m <= n
  PROVE  StepDown(m) <= StepDown(n)
  BY HistoryAssumption DEF StepDown

LEMMA StepDownByStep ==
  ASSUME NEW m \in Nat, NEW n \in Nat, StepDown(m) < StepDown(n)
  PROVE  StepDown(m) + HistoryStep <= StepDown(n)
  BY HistoryAssumption DEF StepDown

(* Where the history of a log starts and where it is settled, as if all of it  *)
(* had been loaded.                                                            *)
StartOf(n) == StepDown(Less(n, HistoryMin))

Split(n, start, stable) == start = StartOf(n) /\ stable = StepDown(n)

LEMMA StartOfBounds ==
  ASSUME NEW n \in Nat
  PROVE  StartOf(n) \in Nat /\ StartOf(n) <= n /\ StartOf(n) <= StepDown(n)
         /\ n - StartOf(n) \in Lesser(HistoryMin, n)..(HistoryMin + HistoryStep - 1)
<1> DEFINE m == Less(n, HistoryMin)
<1>1. m \in Nat /\ m <= n /\ (IF n > HistoryMin THEN m = n - HistoryMin ELSE m = 0)
  BY HistoryAssumption DEF Less
<1>2. StartOf(n) = StepDown(m)
  BY DEF StartOf
<1> HIDE DEF m
<1>3. StepDown(m) \in Nat /\ StepDown(m) <= m /\ m < StepDown(m) + HistoryStep /\ StepDown(m) <= StepDown(n)
  BY <1>1, StepDownBounds, StepDownRises
<1>4. QED
  BY <1>1, <1>2, <1>3, HistoryAssumption DEF Lesser

LEMMA StartOfRises ==
  ASSUME NEW m \in Nat, NEW n \in Nat, m <= n
  PROVE  /\ StartOf(m) <= StartOf(n)
         /\ StartOf(n) # StartOf(m) => StartOf(m) + HistoryStep <= StartOf(n)
<1>1. Less(m, HistoryMin) \in Nat /\ Less(n, HistoryMin) \in Nat /\ Less(m, HistoryMin) <= Less(n, HistoryMin)
  BY HistoryAssumption DEF Less
<1> DEFINE k == Less(m, HistoryMin)
           l == Less(n, HistoryMin)
<1>2. StartOf(m) = StepDown(k) /\ StartOf(n) = StepDown(l)
  BY DEF StartOf
<1>3. k \in Nat /\ l \in Nat /\ k <= l
  BY <1>1
<1> HIDE DEF k, l
<1>4. StepDown(k) \in Nat /\ StepDown(l) \in Nat /\ StepDown(k) <= StepDown(l)
  BY <1>3, StepDownBounds, StepDownRises
<1>5. StepDown(l) # StepDown(k) => StepDown(k) + HistoryStep <= StepDown(l)
  BY <1>3, <1>4, StepDownByStep
<1>6. QED
  BY <1>2, <1>4, <1>5

(* What history_split finds in a window is where it would be in the whole log. *)
LEMMA WindowSplits ==
  ASSUME NEW n \in Nat
  PROVE  LET loaded == Lesser(n, Window)
             before == n - loaded
         IN Split(n, before + Start(n, loaded), before + StableEnd(n, loaded))
<1> DEFINE loaded == Lesser(n, Window)
           before == n - loaded
<1>1. /\ loaded \in Nat /\ before \in Nat /\ n = before + loaded /\ Less(n, loaded) = before
      /\ before = 0 \/ (loaded = Window /\ n > Window)
  BY HistoryAssumption DEF Lesser, Less
<1>2. StartOf(n) \in Nat /\ StartOf(n) <= n /\ n - StartOf(n) <= HistoryMin + HistoryStep - 1
  BY StartOfBounds, HistoryAssumption DEF Lesser
<1>3. StepDown(n) \in Nat /\ StepDown(n) <= n /\ n < StepDown(n) + HistoryStep
  BY StepDownBounds
<1>4. Start(n, loaded) = Lesser(Less(StartOf(n), before), loaded)
      /\ StableEnd(n, loaded) = Lesser(Less(StepDown(n), before), loaded)
  BY <1>1 DEF Start, StableEnd, StartOf
<1> HIDE DEF loaded, before
<1>5. before + Lesser(Less(StartOf(n), before), loaded) = StartOf(n)
  BY <1>1, <1>2, HistoryAssumption DEF Lesser, Less
<1>6. before + Lesser(Less(StepDown(n), before), loaded) = StepDown(n)
  BY <1>1, <1>3, HistoryAssumption DEF Lesser, Less
<1>7. QED
  BY <1>4, <1>5, <1>6 DEF Split, loaded, before

(* Whatever is found, it is in the window. *)
LEMMA SplitInWindow ==
  ASSUME NEW n \in Nat, NEW loaded \in Nat
  PROVE  Start(n, loaded) \in 0..loaded /\ StableEnd(n, loaded) \in 0..loaded
<1>1. \A k \in Nat : Lesser(k, loaded) \in 0..loaded
  BY DEF Lesser
<1>2. \A k, l \in Nat : Less(k, l) \in Nat
  BY DEF Less
<1>3. Less(n, HistoryMin) \in Nat /\ Less(n, loaded) \in Nat
  BY <1>2, HistoryAssumption
<1>4. StepDown(Less(n, HistoryMin)) \in Nat /\ StepDown(n) \in Nat
  BY <1>3, StepDownBounds
<1>5. QED
  BY <1>1, <1>2, <1>3, <1>4 DEF Start, StableEnd

-----------------------------------------------------------------------------
(* The reply                                                                   *)

Notes == [from : Nat, through : Nat]

Replies == [phase : Phases, kind : Kinds, before : Nat, start : Nat, stable : Nat,
            thread : SUBSET Nat, notes : Notes, clean : BOOLEAN]

Prompts == [total : Nat, before : Nat, start : Nat, stable : Nat, lost : SUBSET Nat,
            notes : Notes, noted : BOOLEAN, clean : BOOLEAN]

LEMMA Beginnings == None \in Notes /\ NoReply \in Replies /\ Nothing \in Prompts
  BY DEF None, Notes, NoReply, Replies, Phases, Kinds, Nothing, Prompts

LEMMA BegunReply ==
  ASSUME NEW kind \in Kinds, NEW thread \in SUBSET Nat
  PROVE  LET r == [NoReply EXCEPT !.phase = "gathering", !.kind = kind, !.thread = thread]
         IN r \in Replies /\ r.phase = "gathering" /\ r.notes = None
  BY DEF Replies, NoReply, None, Notes, Phases, Kinds

LEMMA GoneReply ==
  ASSUME NEW r \in Replies, NEW phase \in Phases
  PROVE  LET s == [r EXCEPT !.phase = phase]
         IN /\ s \in Replies /\ s.phase = phase /\ s.kind = r.kind /\ s.before = r.before
            /\ s.start = r.start /\ s.stable = r.stable /\ s.notes = r.notes /\ s.clean = r.clean
  BY DEF Replies

-----------------------------------------------------------------------------
(* The invariant                                                               *)

Types ==
  /\ total \in 0..MaxTotal /\ faults \in Nat /\ summary \in Notes
  /\ reply \in Replies /\ prompt \in Prompts

Grounded == {"noting", "summarizing", "completing"}

(* How many of those before the history the notes may leave out. *)
FewLeftOut(notes, before, start) ==
  LET older == (before + 1)..start
      covered == notes.from..notes.through
  IN IF notes = None THEN Cardinality(older) < MinOlder
     ELSE Cardinality(older \ covered) < RefreshAfter \/ older = {}

(* The log does not grow while a reply is made, so what it was split into is   *)
(* still so when the prompt is put together.                                   *)
InPlace ==
  /\ reply.phase \in Grounded /\ reply.clean => Split(total, reply.start, reply.stable)
  /\ prompt.clean => Split(prompt.total, prompt.start, prompt.stable)
  /\ prompt.total <= total

(* What is before the history was loaded from the beginning of the window,     *)
(* which never moves back, if it was loaded at all; and so a summary covers    *)
(* what is in later windows from their beginning.                              *)
FromWindow ==
  /\ summary # None => summary.from <= Less(total, Window) + 1
  /\ reply.phase \in Grounded =>
       reply.before = Less(total, Window) \/ (reply.before >= Less(total, Window) /\ reply.start = reply.before)
  /\ reply.phase = "summarizing" => reply.start > reply.before

(* The notes a reply is about to get, and those of the last prompt. *)
Noted ==
  /\ reply.phase # "completing" => reply.notes = None
  /\ reply.phase = "completing" /\ reply.clean /\ reply.kind # "greeting" =>
       FewLeftOut(reply.notes, reply.before, reply.start)
  /\ prompt.clean => prompt.lost = {}
  /\ prompt.clean /\ prompt.noted => FewLeftOut(prompt.notes, prompt.before, prompt.start)

(* As long as nothing fails, no summary goes past where the history starts. *)
NotPast ==
  faults = 0 =>
    /\ summary.through <= StartOf(total)
    /\ reply.phase \in Grounded => reply.clean /\ reply.notes.through <= reply.start
    /\ prompt.notes.through <= prompt.start

MemoryInv == Types /\ InPlace /\ FromWindow /\ Noted /\ NotPast

LEMMA InitialMemory == MemoryInit => MemoryInv
<1> SUFFICES ASSUME MemoryInit
             PROVE  MemoryInv
  OBVIOUS
<1>1. total = 0 /\ faults = 0 /\ summary = None /\ reply = NoReply /\ prompt = Nothing
  BY DEF MemoryInit
<1>2. Types
  BY <1>1, Beginnings, MemoryAssumption DEF Types
<1>3. StartOf(0) = 0 /\ StepDown(0) = 0
  BY StartOfBounds, StepDownBounds
<1>4. Cardinality(1..0) = 0
  BY FS_EmptySet
<1>5. InPlace /\ FromWindow /\ NotPast
  BY <1>1, <1>3 DEF InPlace, Split, FromWindow, NotPast, NoReply, Nothing, None, Grounded
<1>6. Noted
  BY <1>1, <1>4, MemoryAssumption DEF Noted, FewLeftOut, NoReply, Nothing, None
<1>7. QED
  BY <1>2, <1>5, <1>6 DEF MemoryInv

-----------------------------------------------------------------------------
(* The steps of the memory                                                     *)

LEMMA LessRises ==
  ASSUME NEW m \in Nat, NEW n \in Nat, m <= n
  PROVE  Less(m, Window) \in Nat /\ Less(n, Window) \in Nat /\ Less(m, Window) <= Less(n, Window)
  BY HistoryAssumption DEF Less

(* The log grows, and no reply is being made of it afterwards. *)
LEMMA GrowingKeeps ==
  ASSUME MemoryInv, total' \in total..MaxTotal, UNCHANGED <<summary, prompt, faults>>,
         reply' \in Replies, reply'.phase \notin Grounded, reply'.notes = None
  PROVE  MemoryInv'
<1>1. total \in Nat /\ total' \in Nat /\ total <= total' /\ Types'
  BY MemoryAssumption DEF MemoryInv, Types
<1>2. StartOf(total) <= StartOf(total') /\ StartOf(total) \in Nat /\ StartOf(total') \in Nat
  BY <1>1, StartOfRises, StartOfBounds
<1>3. /\ Less(total, Window) <= Less(total', Window)
      /\ Less(total, Window) \in Nat /\ Less(total', Window) \in Nat
  BY <1>1, LessRises
<1>4. summary.from \in Nat /\ summary.through \in Nat /\ prompt.total \in Nat
  BY DEF MemoryInv, Types, Notes, Prompts
<1>5. InPlace'
  BY <1>1, <1>4 DEF MemoryInv, InPlace
<1>6. FromWindow'
  BY <1>3, <1>4 DEF MemoryInv, FromWindow, Grounded
<1>7. Noted'
  BY DEF MemoryInv, Noted, Grounded
<1>8. NotPast'
  BY <1>2, <1>4 DEF MemoryInv, NotPast
<1>9. QED
  BY <1>1, <1>5, <1>6, <1>7, <1>8 DEF MemoryInv

LEMMA AnsweredGrows ==
  ASSUME MemoryInv, LogAnswered
  PROVE  total' \in total..MaxTotal
  BY MemoryAssumption DEF MemoryInv, Types, LogAnswered, Lesser

LEMMA QuietKeeps ==
  ASSUME MemoryInv, LogQuietly
  PROVE  MemoryInv'
<1>1. /\ total' \in total..MaxTotal /\ UNCHANGED <<summary, reply, prompt, faults>>
      /\ reply.phase = "idle" /\ reply \in Replies
  BY MemoryAssumption DEF MemoryInv, Types, LogQuietly, InPhase
<1>2. reply.notes = None
  BY <1>1 DEF MemoryInv, Noted
<1>3. QED
  BY <1>1, <1>2, GrowingKeeps DEF Grounded

LEMMA BeginKeeps ==
  ASSUME MemoryInv, BeginReply
  PROVE  MemoryInv'
<1>1. total \in Nat /\ total <= MaxTotal
  BY MemoryAssumption DEF MemoryInv, Types
<1>2. PICK kind \in Kinds, thread \in {{}} \union {{n} : n \in {1, total} \ {0}} :
        reply' = [NoReply EXCEPT !.phase = "gathering", !.kind = kind, !.thread = thread]
  BY DEF BeginReply
<1>3. thread \in SUBSET Nat
  BY <1>1, <1>2
<1>4. reply' \in Replies /\ reply'.phase = "gathering" /\ reply'.notes = None
  BY <1>2, <1>3, BegunReply
<1>5. total' \in total..MaxTotal /\ UNCHANGED <<summary, prompt, faults>>
  BY <1>1, MemoryAssumption DEF BeginReply
<1>6. QED
  BY <1>4, <1>5, GrowingKeeps DEF Grounded

LEMMA GatheredKeeps ==
  ASSUME MemoryInv, InPhase("gathering"), Goes("loading"), UNCHANGED <<total, summary, prompt, faults>>
  PROVE  MemoryInv'
<1>1. reply \in Replies /\ reply.notes = None /\ total' \in total..MaxTotal
  BY MemoryAssumption DEF MemoryInv, Types, Noted, InPhase
<1>2. reply' \in Replies /\ reply'.phase = "loading" /\ reply'.notes = None
  BY <1>1, GoneReply DEF Goes, Phases
<1>3. QED
  BY <1>1, <1>2, GrowingKeeps DEF Grounded

LEMMA HoldKeeps ==
  ASSUME MemoryInv, HoldReply
  PROVE  MemoryInv'
<1>1. total' \in total..MaxTotal
  BY AnsweredGrows DEF HoldReply
<1>2. reply' \in Replies /\ reply'.phase = "idle" /\ reply'.notes = None
  BY Beginnings DEF HoldReply, NoReply
<1>3. UNCHANGED <<summary, prompt, faults>>
  BY DEF HoldReply
<1>4. QED
  BY <1>1, <1>2, <1>3, GrowingKeeps DEF Grounded

LEMMA LoadKeeps ==
  ASSUME MemoryInv, LoadLog
  PROVE  MemoryInv'
<1>1. PICK loaded \in {Lesser(total, Window), 0}, counts \in BOOLEAN :
        LET count == IF counts THEN total ELSE loaded
            before == total - loaded
            clean == loaded = Lesser(total, Window) /\ counts
        IN /\ reply' = [reply EXCEPT !.before = before, !.clean = clean,
                          !.phase = IF reply.kind = "greeting" THEN "completing" ELSE "noting",
                          !.start = before + Start(count, loaded),
                          !.stable = before + StableEnd(count, loaded)]
           /\ IF clean THEN UNCHANGED faults ELSE Fault
  BY DEF LoadLog
<1> DEFINE count == IF counts THEN total ELSE loaded
           before == total - loaded
           clean == loaded = Lesser(total, Window) /\ counts
           phase == IF reply.kind = "greeting" THEN "completing" ELSE "noting"
           start == before + Start(count, loaded)
           stable == before + StableEnd(count, loaded)
<1>2. /\ total \in Nat /\ faults \in Nat /\ summary \in Notes /\ reply \in Replies /\ prompt \in Prompts
      /\ reply.phase = "loading" /\ reply.notes = None
  BY MemoryAssumption DEF MemoryInv, Types, Noted, LoadLog, InPhase
<1>3. /\ loaded \in Nat /\ count \in Nat /\ before \in Nat
      /\ before = Less(total, Window) \/ (loaded = 0 /\ before >= Less(total, Window))
  BY <1>2, HistoryAssumption DEF Lesser, Less
<1>4. Start(count, loaded) \in 0..loaded /\ StableEnd(count, loaded) \in 0..loaded
  BY <1>3, SplitInWindow
<1>5. start \in Nat /\ stable \in Nat /\ (loaded = 0 => start = before)
  BY <1>3, <1>4
<1>6. clean \in BOOLEAN /\ phase \in Phases /\ phase \in {"noting", "completing"}
      /\ (phase = "completing" <=> reply.kind = "greeting")
  BY DEF Phases
<1>7. clean => Split(total, start, stable)
  BY <1>2, WindowSplits
<1>8. reply' = [reply EXCEPT !.before = before, !.clean = clean, !.phase = phase,
                             !.start = start, !.stable = stable]
      /\ (IF clean THEN UNCHANGED faults ELSE Fault)
  BY <1>1
<1>9. UNCHANGED <<total, summary, prompt>>
  BY DEF LoadLog
<1> HIDE DEF count, before, clean, phase, start, stable
<1>10. /\ reply' \in Replies /\ reply'.phase = phase /\ reply'.kind = reply.kind
       /\ reply'.before = before /\ reply'.start = start /\ reply'.stable = stable
       /\ reply'.notes = None /\ reply'.clean = clean
  <2> DEFINE s == [reply EXCEPT !.before = before, !.clean = clean, !.phase = phase,
                                !.start = start, !.stable = stable]
  <2>1. /\ s \in Replies /\ s.phase = phase /\ s.kind = reply.kind /\ s.before = before
        /\ s.start = start /\ s.stable = stable /\ s.notes = reply.notes /\ s.clean = clean
    <3>1. /\ reply \in Replies /\ before \in Nat /\ clean \in BOOLEAN /\ phase \in Phases
          /\ start \in Nat /\ stable \in Nat
      BY <1>2, <1>3, <1>5, <1>6
    <3>2. QED
      BY <3>1 DEF Replies
  <2>2. reply' = s
    BY <1>8
  <2> HIDE DEF s
  <2>3. QED
    BY <1>2, <2>1, <2>2
<1>11. faults' \in Nat /\ (faults' = 0 => clean /\ faults = 0)
  BY <1>2, <1>8 DEF Fault
<1>12. Types'
  BY <1>2, <1>9, <1>10, <1>11 DEF MemoryInv, Types
<1>13. InPlace'
  BY <1>7, <1>9, <1>10 DEF MemoryInv, InPlace, Split
<1>14. FromWindow'
  BY <1>3, <1>5, <1>6, <1>9, <1>10 DEF MemoryInv, FromWindow
<1>15. Noted'
  BY <1>6, <1>9, <1>10 DEF MemoryInv, Noted
<1>16. NotPast'
  <2>1. None.through <= start
    BY <1>5 DEF None
  <2>2. QED
    BY <1>9, <1>10, <1>11, <2>1 DEF MemoryInv, NotPast
<1>17. QED
  BY <1>12, <1>13, <1>14, <1>15, <1>16 DEF MemoryInv

(* A part of a range has no more members than the range. *)
LEMMA PartOfRange ==
  ASSUME NEW m \in Nat, NEW n \in Nat, NEW S, S \subseteq m..n
  PROVE  /\ Cardinality(S) \in Nat
         /\ Cardinality(S) <= (IF m > n THEN 0 ELSE n - m + 1)
<1>1. IsFiniteSet(m..n) /\ Cardinality(m..n) = (IF m > n THEN 0 ELSE n - m + 1)
  BY FS_Interval
<1>2. S \in SUBSET (m..n)
  OBVIOUS
<1>3. IsFiniteSet(S) /\ Cardinality(S) <= Cardinality(m..n)
  BY <1>1, <1>2, FS_Subset
<1>4. Cardinality(S) \in Nat
  BY <1>3, FS_CardinalityType
<1>5. QED
  BY <1>1, <1>3, <1>4

(* What the summary there is leaves out, if it need not be refreshed. *)
LEMMA SummaryLeavesFew ==
  ASSUME NEW b \in Nat, NEW s \in Nat, summary \in Notes, reply.before = b, reply.start = s,
         summary # None => summary.from <= b + 1,
         ~(Older # {} /\ NeedsRefresh)
  PROVE  FewLeftOut(summary, b, s)
<1> DEFINE older == (b + 1)..s
           covered == summary.from..summary.through
<1>1. Older = older /\ summary.from \in Nat /\ summary.through \in Nat
  BY DEF Older, Notes
<1>2. Cardinality(older) \in Nat
  <2>1. IsFiniteSet(older)
    BY FS_Interval
  <2>2. QED
    BY <2>1, FS_CardinalityType
<1>3. CASE summary = None
  <2>1. CASE older = {}
    BY <1>3, <2>1, FS_EmptySet, MemoryAssumption DEF FewLeftOut
  <2>2. CASE older # {}
    BY <1>1, <1>2, <1>3, <2>2, MemoryAssumption DEF FewLeftOut, NeedsRefresh
  <2>3. QED
    BY <2>1, <2>2
<1>4. CASE summary # None /\ older # {}
  <2>1. ~(Unseen >= RefreshAfter)
    BY <1>1, <1>4 DEF NeedsRefresh
  <2>2. CASE summary.through \in older
    <3>1. older \ covered \subseteq (summary.through + 1)..s
      BY <1>1, <1>4
    <3>2. Cardinality(older \ covered) \in Nat /\ Cardinality(older \ covered) <= s - summary.through
      <4>1. summary.through + 1 \in Nat /\ summary.through <= s
        BY <1>1, <2>2
      <4>2. Cardinality(older \ covered) \in Nat
            /\ Cardinality(older \ covered) <= (IF summary.through + 1 > s THEN 0 ELSE s - (summary.through + 1) + 1)
        BY <3>1, <4>1, PartOfRange
      <4>3. QED
        BY <1>1, <4>1, <4>2
    <3>3. Unseen = s - summary.through
      BY <1>1, <2>2 DEF Unseen
    <3>4. Cardinality(older \ covered) < RefreshAfter
      BY <1>1, <2>1, <3>2, <3>3, MemoryAssumption
    <3>5. QED
      BY <1>4, <3>4 DEF FewLeftOut
  <2>3. CASE summary.through \notin older
    <3>1. Unseen = Cardinality(older)
      BY <1>1, <2>3 DEF Unseen
    <3>2. older \ covered \subseteq older /\ IsFiniteSet(older)
      BY FS_Interval
    <3>3. Cardinality(older \ covered) <= Cardinality(older) /\ IsFiniteSet(older \ covered)
      BY <3>2, FS_Subset
    <3>4. Cardinality(older \ covered) \in Nat
      BY <3>3, FS_CardinalityType
    <3>5. Cardinality(older \ covered) < RefreshAfter
      BY <1>2, <2>1, <3>1, <3>3, <3>4, MemoryAssumption
    <3>6. QED
      BY <1>4, <3>5 DEF FewLeftOut
  <2>4. QED
    BY <2>2, <2>3
<1>5. CASE summary # None /\ older = {}
  BY <1>5 DEF FewLeftOut
<1>6. QED
  BY <1>3, <1>4, <1>5

LEMMA UseKeeps ==
  ASSUME MemoryInv, UseSummary
  PROVE  MemoryInv'
<1>1. /\ total \in Nat /\ faults \in Nat /\ summary \in Notes /\ reply \in Replies /\ prompt \in Prompts
      /\ reply.phase = "noting" /\ reply.notes = None /\ reply.before \in Nat /\ reply.start \in Nat
  BY MemoryAssumption DEF MemoryInv, Types, Noted, UseSummary, InPhase, Replies
<1>2. UNCHANGED <<total, summary, prompt, faults>>
  BY DEF UseSummary
<1>3. CASE Older # {} /\ NeedsRefresh
  <2>1. reply' = [reply EXCEPT !.phase = "summarizing"] /\ "summarizing" \in Phases
    BY <1>3 DEF UseSummary, Goes, Phases
  <2>2. /\ reply' \in Replies /\ reply'.phase = "summarizing" /\ reply'.kind = reply.kind
        /\ reply'.before = reply.before /\ reply'.start = reply.start /\ reply'.stable = reply.stable
        /\ reply'.notes = reply.notes /\ reply'.clean = reply.clean
    BY <1>1, <2>1, GoneReply
  <2>3. reply.start > reply.before
    BY <1>1, <1>3 DEF Older
  <2>4. Types' /\ InPlace'
    BY <1>1, <1>2, <2>2 DEF MemoryInv, Types, InPlace, Grounded
  <2>5. FromWindow'
    BY <1>1, <1>2, <2>2, <2>3 DEF MemoryInv, FromWindow, Grounded
  <2>6. Noted' /\ NotPast'
    BY <1>1, <1>2, <2>2 DEF MemoryInv, Noted, NotPast, Grounded
  <2>7. QED
    BY <2>4, <2>5, <2>6 DEF MemoryInv
<1>4. CASE ~(Older # {} /\ NeedsRefresh)
  <2>1. reply' = [reply EXCEPT !.phase = "completing", !.notes = summary] /\ "completing" \in Phases
    BY <1>4 DEF UseSummary, Phases
  <2>2. /\ reply' \in Replies /\ reply'.phase = "completing" /\ reply'.kind = reply.kind
        /\ reply'.before = reply.before /\ reply'.start = reply.start /\ reply'.stable = reply.stable
        /\ reply'.notes = summary /\ reply'.clean = reply.clean
    BY <1>1, <2>1 DEF Replies
  <2>3. summary # None => summary.from <= reply.before + 1
    <3>1. reply.before >= Less(total, Window) /\ Less(total, Window) \in Nat /\ summary.from \in Nat
      BY <1>1, LessRises DEF MemoryInv, FromWindow, Grounded, Notes
    <3>2. QED
      BY <1>1, <3>1 DEF MemoryInv, FromWindow
  <2>4. FewLeftOut(summary, reply.before, reply.start)
    BY <1>1, <1>4, <2>3, SummaryLeavesFew
  <2>5. Types' /\ InPlace'
    BY <1>1, <1>2, <2>2 DEF MemoryInv, Types, InPlace, Grounded
  <2>6. FromWindow'
    BY <1>1, <1>2, <2>2 DEF MemoryInv, FromWindow, Grounded
  <2>7. Noted'
    BY <1>1, <1>2, <2>2, <2>4 DEF MemoryInv, Noted
  <2>8. NotPast'
    BY <1>1, <1>2, <2>2 DEF MemoryInv, NotPast, InPlace, Split, Grounded
  <2>9. QED
    BY <2>5, <2>6, <2>7, <2>8 DEF MemoryInv
<1>5. QED
  BY <1>3, <1>4

LEMMA RefreshKeeps ==
  ASSUME MemoryInv, RefreshSummary
  PROVE  MemoryInv'
<1>1. /\ total \in Nat /\ faults \in Nat /\ summary \in Notes /\ reply \in Replies /\ prompt \in Prompts
      /\ reply.phase = "summarizing" /\ reply.before \in Nat /\ reply.start \in Nat
      /\ "completing" \in Phases
  BY MemoryAssumption DEF MemoryInv, Types, RefreshSummary, InPhase, Replies, Phases
<1>2. UNCHANGED <<total, prompt>>
  BY DEF RefreshSummary
<1>3. reply.start > reply.before /\ reply.before = Less(total, Window)
  BY <1>1 DEF MemoryInv, FromWindow, Grounded
<1>4. CASE /\ reply' = [reply EXCEPT !.phase = "completing", !.notes = Refreshed]
           /\ (summary' = Refreshed /\ UNCHANGED faults) \/ (Fault /\ UNCHANGED summary)
  <2>1. Refreshed \in Notes /\ Refreshed.from = reply.before + 1 /\ Refreshed.through = reply.start
    BY <1>1 DEF Refreshed, Through, Notes
  <2>2. /\ reply' \in Replies /\ reply'.phase = "completing" /\ reply'.kind = reply.kind
        /\ reply'.before = reply.before /\ reply'.start = reply.start /\ reply'.stable = reply.stable
        /\ reply'.notes = Refreshed /\ reply'.clean = reply.clean
    BY <1>1, <1>4, <2>1 DEF Replies
  <2>3. faults' \in Nat /\ (faults' = 0 => faults = 0)
    BY <1>1, <1>4 DEF Fault
  <2>4. summary' = Refreshed \/ summary' = summary
    BY <1>4
  <2>5. FewLeftOut(Refreshed, reply.before, reply.start)
    <3>1. ((reply.before + 1)..reply.start) \ (Refreshed.from..Refreshed.through) = {}
      BY <2>1
    <3>2. Refreshed # None
      BY <1>1, <2>1 DEF None
    <3>3. QED
      BY <3>1, <3>2, FS_EmptySet, MemoryAssumption DEF FewLeftOut
  <2>6. Types' /\ InPlace'
    BY <1>1, <1>2, <2>1, <2>2, <2>3, <2>4 DEF MemoryInv, Types, InPlace, Grounded
  <2>7. FromWindow'
    BY <1>1, <1>2, <1>3, <2>1, <2>2, <2>4 DEF MemoryInv, FromWindow, Grounded
  <2>8. Noted'
    BY <1>1, <1>2, <2>2, <2>5 DEF MemoryInv, Noted
  <2>9. NotPast'
    <3>1. SUFFICES ASSUME faults = 0
                   PROVE  /\ summary'.through <= StartOf(total)
                          /\ reply.clean /\ Refreshed.through <= reply.start
                          /\ prompt.notes.through <= prompt.start
      BY <1>2, <2>2, <2>3 DEF NotPast
    <3>2. reply.clean /\ reply.start = StartOf(total)
      BY <1>1, <3>1 DEF MemoryInv, NotPast, InPlace, Split, Grounded
    <3>3. QED
      BY <1>1, <2>1, <2>4, <3>1, <3>2 DEF MemoryInv, NotPast
  <2>10. QED
    BY <2>6, <2>7, <2>8, <2>9 DEF MemoryInv
<1>5. CASE /\ reply' = [reply EXCEPT !.phase = "completing", !.notes = summary, !.clean = FALSE]
           /\ Fault /\ UNCHANGED summary
  <2>1. /\ reply' \in Replies /\ reply'.phase = "completing" /\ reply'.kind = reply.kind
        /\ reply'.before = reply.before /\ reply'.start = reply.start /\ reply'.stable = reply.stable
        /\ reply'.notes = summary /\ reply'.clean = FALSE
    BY <1>1, <1>5 DEF Replies
  <2>2. faults' \in Nat /\ faults' # 0
    BY <1>1, <1>5 DEF Fault
  <2>3. Types' /\ InPlace'
    BY <1>1, <1>2, <1>5, <2>1, <2>2 DEF MemoryInv, Types, InPlace, Grounded
  <2>4. FromWindow'
    BY <1>1, <1>2, <1>3, <1>5, <2>1 DEF MemoryInv, FromWindow, Grounded
  <2>5. Noted' /\ NotPast'
    BY <1>1, <1>2, <1>5, <2>1, <2>2 DEF MemoryInv, Noted, NotPast
  <2>6. QED
    BY <2>3, <2>4, <2>5 DEF MemoryInv
<1>6. QED
  BY <1>4, <1>5 DEF RefreshSummary

(* The prompt that is put together. *)
LEMMA PromptMade ==
  ASSUME MemoryInv, EndReply
  PROVE  /\ prompt' \in Prompts /\ prompt'.total = total /\ prompt'.before = reply.before
         /\ prompt'.start = reply.start /\ prompt'.stable = reply.stable /\ prompt'.lost = {}
         /\ prompt'.notes = reply.notes /\ prompt'.noted = (reply.kind # "greeting")
         /\ prompt'.clean = reply.clean
<1>1. /\ total \in Nat /\ reply \in Replies /\ reply.before \in Nat /\ reply.start \in Nat
      /\ reply.stable \in Nat /\ reply.notes \in Notes /\ reply.clean \in BOOLEAN
  BY MemoryAssumption DEF MemoryInv, Types, Replies
<1>2. (reply.start + 1..total) \ Shown = {}
  BY <1>1 DEF Shown, Settled, Recent
<1>3. prompt' = [total |-> total, before |-> reply.before, start |-> reply.start,
                 stable |-> reply.stable, lost |-> {}, notes |-> reply.notes,
                 noted |-> reply.kind # "greeting", clean |-> reply.clean]
  BY <1>2 DEF EndReply
<1>4. QED
  BY <1>1, <1>3 DEF Prompts

LEMMA EndKeeps ==
  ASSUME MemoryInv, EndReply
  PROVE  MemoryInv'
<1>1. /\ total \in Nat /\ faults \in Nat /\ summary \in Notes /\ reply \in Replies
      /\ reply.phase = "completing"
  BY MemoryAssumption DEF MemoryInv, Types, EndReply, InPhase
<1>2. total' \in total..MaxTotal /\ total' \in Nat /\ UNCHANGED <<summary, faults>>
  BY <1>1, AnsweredGrows, MemoryAssumption DEF EndReply
<1>3. reply' \in Replies /\ reply'.phase = "idle" /\ reply'.notes = None
  BY Beginnings DEF EndReply, NoReply
<1>4. Types'
  BY <1>1, <1>2, <1>3, PromptMade, MemoryAssumption DEF MemoryInv, Types
<1>5. InPlace'
  BY <1>1, <1>2, <1>3, PromptMade DEF MemoryInv, InPlace, Grounded
<1>6. FromWindow'
  <2>1. /\ Less(total, Window) <= Less(total', Window) /\ summary.from \in Nat
        /\ Less(total, Window) \in Nat /\ Less(total', Window) \in Nat
    BY <1>1, <1>2, LessRises DEF Notes
  <2>2. QED
    BY <1>2, <1>3, <2>1 DEF MemoryInv, FromWindow, Grounded
<1>7. Noted'
  BY <1>1, <1>3, PromptMade DEF MemoryInv, Noted
<1>8. NotPast'
  <2>1. StartOf(total) <= StartOf(total') /\ StartOf(total) \in Nat /\ StartOf(total') \in Nat
        /\ summary.through \in Nat
    BY <1>1, <1>2, StartOfRises, StartOfBounds DEF Notes
  <2>2. QED
    BY <1>1, <1>2, <1>3, <2>1, PromptMade DEF MemoryInv, NotPast, Grounded
<1>9. QED
  BY <1>4, <1>5, <1>6, <1>7, <1>8 DEF MemoryInv

-----------------------------------------------------------------------------
(* The worker                                                                  *)

(* It is at a reply or at a command, which is begun while the log is short. *)
OneAtATime == ~CommandIn("none") => InPhase("idle") /\ total < MaxSearched

RoomInv == MemoryInv /\ OneAtATime

(* The steps that change what the memory has. *)
MemoryStep ==
  \/ LogQuietly \/ BeginReply \/ HoldReply \/ LoadLog \/ UseSummary \/ RefreshSummary \/ EndReply
  \/ InPhase("gathering") /\ Goes("loading") /\ UNCHANGED <<total, summary, prompt, faults>>
  \/ InPhase("idle") /\ total < MaxSearched /\ total' = total + 1
       /\ UNCHANGED <<summary, reply, prompt, faults>>
  \/ UNCHANGED memoryVars

LEMMA MemoryStepKeeps ==
  ASSUME MemoryInv, MemoryStep
  PROVE  MemoryInv'
<1>1. CASE /\ InPhase("idle") /\ total < MaxSearched /\ total' = total + 1
           /\ UNCHANGED <<summary, reply, prompt, faults>>
  <2>1. total' \in total..MaxTotal /\ reply' \in Replies /\ reply'.phase = "idle" /\ reply'.notes = None
    BY <1>1, MemoryAssumption, AnswersAssumption DEF MemoryInv, Types, Noted, InPhase
  <2>2. QED
    BY <1>1, <2>1, GrowingKeeps DEF Grounded
<1>2. CASE UNCHANGED memoryVars
  BY <1>2 DEF memoryVars, MemoryInv, Types, InPlace, FromWindow, Noted, NotPast
<1>3. QED
  BY <1>1, <1>2, QuietKeeps, BeginKeeps, GatheredKeeps, HoldKeeps, LoadKeeps, UseKeeps, RefreshKeeps,
     EndKeeps DEF MemoryStep

LEMMA RoomSteps ==
  ASSUME RoomInv, [Next]_vars
  PROVE  MemoryStep /\ OneAtATime'
<1>1. CASE Started
  BY <1>1 DEF Started, LoadSkills, memoryVars, MemoryStep, RoomInv, OneAtATime, CommandIn, InPhase
<1>2. CASE MessageLogged
  BY <1>2 DEF MessageLogged, Free, LogQuietly, MemoryStep, OneAtATime, CommandIn
<1>3. CASE ReplyBegins
  BY <1>3 DEF ReplyBegins, Free, MemoryStep, OneAtATime, CommandIn
<1>4. CASE ReplyGathered
  <2>1. CommandIn("none") /\ UNCHANGED command
    BY <1>4 DEF ReplyGathered, RoomInv, OneAtATime, InPhase, commandVars
  <2>2. QED
    BY <1>4, <2>1 DEF ReplyGathered, MemoryStep, OneAtATime, CommandIn
<1>5. CASE ReplyGrounded \/ ReplyEnds
  <2>1. ~InPhase("idle") /\ UNCHANGED command
    BY <1>5 DEF ReplyGrounded, ReplyEnds, LoadLog, UseSummary, RefreshSummary, HoldReply, EndReply,
                InPhase, commandVars
  <2>2. QED
    BY <1>5, <2>1 DEF ReplyGrounded, ReplyEnds, MemoryStep, RoomInv, OneAtATime, CommandIn
<1>6. CASE CommandBegins
  BY <1>6 DEF CommandBegins, Free, memoryVars, MemoryStep, OneAtATime, InPhase
<1>7. CASE CommandGoesOn
  <2>1. ~CommandIn("none") /\ UNCHANGED memoryVars
    BY <1>7 DEF CommandGoesOn, CheckCommand, ReadRoom, LookUp, Complete, CommandIn
  <2>2. QED
    BY <2>1 DEF memoryVars, MemoryStep, RoomInv, OneAtATime, InPhase
<1>8. CASE CommandEnds
  <2>1. /\ ~CommandIn("none") /\ command' = NoCommand
        /\ total' = total + 1 /\ UNCHANGED <<summary, reply, prompt, faults>>
    BY <1>8 DEF CommandEnds, AnswerCommand, CommandIn
  <2>2. NoCommand.phase = "none"
    BY DEF NoCommand
  <2>3. QED
    BY <2>1, <2>2 DEF MemoryStep, RoomInv, OneAtATime, CommandIn
<1>9. CASE UNCHANGED vars
  BY <1>9 DEF vars, memoryVars, commandVars, MemoryStep, RoomInv, OneAtATime, CommandIn, InPhase
<1>10. QED
  BY <1>1, <1>2, <1>3, <1>4, <1>5, <1>6, <1>7, <1>8, <1>9 DEF Next

LEMMA RoomInvariant == Spec => []RoomInv
<1>1. Init => RoomInv
  <2> SUFFICES ASSUME Init
               PROVE  RoomInv
    OBVIOUS
  <2>1. MemoryInit /\ command = NoCommand
    BY DEF Init, CommandsInit
  <2>2. NoCommand.phase = "none"
    BY DEF NoCommand
  <2>3. QED
    BY <2>1, <2>2, InitialMemory DEF RoomInv, OneAtATime, CommandIn
<1>2. RoomInv /\ [Next]_vars => RoomInv'
  BY RoomSteps, MemoryStepKeeps DEF RoomInv
<1>3. QED
  BY <1>1, <1>2, PTL DEF Spec

(* What was just split stays split: a reply's history is that of the last one, *)
(* or a step further on, and never shorter than the minimum nor longer than    *)
(* the minimum and a step, for any window that holds both.                     *)
THEOREM HistoryStaysPut == Spec => StableHistory
<1>1. ASSUME RoomInv, [Next]_vars
      PROVE  [prompt' # prompt /\ prompt.clean /\ prompt'.clean =>
               /\ \/ prompt'.start = prompt.start /\ prompt'.stable >= prompt.stable
                  \/ prompt'.start >= prompt.start + HistoryStep
               /\ prompt'.total - prompt'.start \in
                    Lesser(HistoryMin, prompt'.total)..(HistoryMin + HistoryStep - 1)]_memoryVars
  <2> SUFFICES ASSUME prompt' # prompt, prompt.clean, prompt'.clean
               PROVE  /\ \/ prompt'.start = prompt.start /\ prompt'.stable >= prompt.stable
                         \/ prompt'.start >= prompt.start + HistoryStep
                      /\ prompt'.total - prompt'.start \in
                           Lesser(HistoryMin, prompt'.total)..(HistoryMin + HistoryStep - 1)
    OBVIOUS
  <2>1. EndReply
    BY <1>1, RoomSteps DEF MemoryStep, LogQuietly, BeginReply, HoldReply, LoadLog, UseSummary,
                           RefreshSummary, memoryVars
  <2>2. prompt'.total = total /\ prompt'.start = reply.start /\ prompt'.stable = reply.stable
        /\ reply.clean /\ reply.phase = "completing"
    BY <1>1, <2>1, PromptMade DEF RoomInv, EndReply, InPhase
  <2>3. /\ prompt.total \in Nat /\ total \in Nat /\ prompt.total <= total
        /\ Split(prompt.total, prompt.start, prompt.stable) /\ Split(total, reply.start, reply.stable)
    BY <1>1, <2>2, MemoryAssumption DEF RoomInv, MemoryInv, Types, InPlace, Grounded, Prompts
  <2>4. /\ StartOf(prompt.total) \in Nat /\ StartOf(total) \in Nat
        /\ StepDown(prompt.total) \in Nat /\ StepDown(total) \in Nat
        /\ StepDown(prompt.total) <= StepDown(total)
        /\ StartOf(total) # StartOf(prompt.total) => StartOf(prompt.total) + HistoryStep <= StartOf(total)
    BY <2>3, StartOfRises, StartOfBounds, StepDownBounds, StepDownRises
  <2>5. total - StartOf(total) \in Lesser(HistoryMin, total)..(HistoryMin + HistoryStep - 1)
    BY <2>3, StartOfBounds
  <2>6. QED
    BY <2>2, <2>3, <2>4, <2>5, HistoryAssumption DEF Split
<1>2. QED
  BY <1>1, RoomInvariant, PTL DEF Spec, StableHistory

(* Every message of the window is in the summary, in the history, or among the *)
(* few not worth a new summary, for any thresholds and however the log grows   *)
(* between replies.                                                            *)
THEOREM NothingIsLost == Spec => []NothingFallsBetween
<1>1. ASSUME RoomInv
      PROVE  NothingFallsBetween
  <2> SUFFICES ASSUME prompt.clean
               PROVE  /\ prompt.lost = {}
                      /\ prompt.noted => FewLeftOut(prompt.notes, prompt.before, prompt.start)
                      /\ faults = 0 =>
                           (prompt.notes.from..prompt.notes.through) \intersect
                             ((prompt.start + 1)..prompt.total) \subseteq {0}
    BY DEF NothingFallsBetween, FewLeftOut
  <2>1. prompt.lost = {} /\ (prompt.noted => FewLeftOut(prompt.notes, prompt.before, prompt.start))
    BY <1>1 DEF RoomInv, MemoryInv, Noted
  <2>2. prompt.notes.through \in Nat /\ prompt.notes.from \in Nat /\ prompt.start \in Nat /\ prompt.total \in Nat
    BY <1>1 DEF RoomInv, MemoryInv, Types, Prompts, Notes
  <2>3. faults = 0 => prompt.notes.through <= prompt.start
    BY <1>1 DEF RoomInv, MemoryInv, NotPast
  <2>4. QED
    BY <2>1, <2>2, <2>3
<1>2. QED
  BY <1>1, RoomInvariant, PTL

-----------------------------------------------------------------------------
(* Breakdowns                                                                  *)

LEMMA SumIs ==
  ASSUME NEW S, IsFiniteSet(S), NEW f \in [S -> Nat]
  PROVE  \E sum : Sums(sum, f, S) /\ SumFunction(f) = sum[S]
<1> DEFINE Right(g) == g = [T \in SUBSET S |->
                              IF T = {} THEN 0 ELSE LET x == CHOOSE x \in T : TRUE IN f[x] + g[T \ {x}]]
           iter == CHOOSE g : Right(g)
<1>1. DOMAIN f = S
  OBVIOUS
<1>2. SumFunction(f) = iter[S]
  BY <1>1 DEF SumFunction, SumFunctionOnSet, FoldFunctionOnSet, MapThenFoldSet
<1>3. PICK g : Sums(g, f, S)
  BY SumExists
<1>4. Right(g)
  BY <1>3 DEF Sums
<1>5. Right(iter)
  <2> HIDE DEF Right
  <2> QED
    BY <1>4
<1>6. Sums(iter, f, S)
  <2> HIDE DEF iter
  <2> QED
    BY <1>5 DEF Sums
<1>7. QED
  BY <1>2, <1>6

(* However the elements of a finite set are told apart, there are as many in   *)
(* all parts together.                                                         *)
Part(R, key, k) == {x \in R : key[x] = k}

LEMMA PartsAddUp ==
  ASSUME NEW R, IsFiniteSet(R), NEW keys, IsFiniteSet(keys), NEW key \in [R -> keys]
  PROVE  SumFunction([k \in keys |-> Cardinality(Part(R, key, k))]) = Cardinality(R)
<1> DEFINE f == [k \in keys |-> Cardinality(Part(R, key, k))]
           Of(T) == {x \in R : key[x] \in T}
<1>1. \A k \in keys : IsFiniteSet(Part(R, key, k)) /\ Cardinality(Part(R, key, k)) \in Nat
  <2>1. ASSUME NEW k \in keys
        PROVE  IsFiniteSet(Part(R, key, k)) /\ Cardinality(Part(R, key, k)) \in Nat
    <3>1. Part(R, key, k) \in SUBSET R
      BY DEF Part
    <3>2. QED
      BY <3>1, FS_Subset, FS_CardinalityType
  <2>2. QED
    BY <2>1
<1>2. f \in [keys -> Nat]
  BY <1>1
<1>3. \A T : IsFiniteSet(Of(T)) /\ Cardinality(Of(T)) \in Nat
  <2>1. ASSUME NEW T
        PROVE  IsFiniteSet(Of(T)) /\ Cardinality(Of(T)) \in Nat
    <3>1. Of(T) \in SUBSET R
      OBVIOUS
    <3>2. QED
      BY <3>1, FS_Subset, FS_CardinalityType
  <2>2. QED
    BY <2>1
<1>4. \A k \in keys : f[k] = Cardinality(Part(R, key, k))
  OBVIOUS
<1>5. Of(keys) = R
  OBVIOUS
<1>6. \A T \in SUBSET keys : \A k \in T : Of(T) = Of(T \ {k}) \union Part(R, key, k)
                                       /\ Of(T \ {k}) \intersect Part(R, key, k) = {}
  BY DEF Part
<1>7. Of({}) = {}
  OBVIOUS
<1> HIDE DEF f, Of
<1>8. PICK sum : Sums(sum, f, keys) /\ SumFunction(f) = sum[keys]
  BY <1>2, SumIs
<1> DEFINE Bad == {T \in SUBSET keys : sum[T] # Cardinality(Of(T))}
<1>9. ASSUME Bad # {}
      PROVE  FALSE
  <2>1. PICK T \in Bad : \A k \in T : T \ {k} \notin Bad
    BY <1>9, SmallestSubset
  <2>2. T \in SUBSET keys /\ sum[T] # Cardinality(Of(T))
    BY <2>1
  <2>3. sum[{}] = 0
    BY <1>2, <1>8, SumTypes
  <2>4. T # {}
    BY <1>7, <2>2, <2>3, FS_EmptySet
  <2>5. PICK k \in T : TRUE
    BY <2>4
  <2>6. sum[T] = f[k] + sum[T \ {k}]
    BY <1>2, <1>8, <2>2, SumSplits
  <2>7. sum[T \ {k}] = Cardinality(Of(T \ {k}))
    BY <2>1, <2>2
  <2>8. Cardinality(Of(T)) = Cardinality(Of(T \ {k})) + Cardinality(Part(R, key, k))
    <3>1. k \in keys
      BY <2>2
    <3>2. IsFiniteSet(Of(T \ {k})) /\ IsFiniteSet(Part(R, key, k))
      BY <1>1, <1>3, <3>1
    <3>3. Of(T) = Of(T \ {k}) \union Part(R, key, k) /\ Of(T \ {k}) \intersect Part(R, key, k) = {}
      BY <1>6, <2>2
    <3>4. Cardinality(Of(T)) = Cardinality(Of(T \ {k})) + Cardinality(Part(R, key, k)) - Cardinality({})
      BY <3>2, <3>3, FS_Union
    <3>5. Cardinality({}) = 0 /\ Cardinality(Of(T \ {k})) \in Nat /\ Cardinality(Part(R, key, k)) \in Nat
      BY <1>1, <1>3, <3>1, FS_EmptySet
    <3>6. QED
      BY <3>4, <3>5
  <2>9. QED
    <3>1. k \in keys /\ f[k] = Cardinality(Part(R, key, k)) /\ f[k] \in Nat /\ Cardinality(Of(T \ {k})) \in Nat
      BY <1>1, <1>3, <1>4, <2>2
    <3>2. QED
      BY <2>2, <2>6, <2>7, <2>8, <3>1
<1>10. QED
  <2>1. keys \notin Bad
    BY <1>9
  <2>2. sum[keys] = Cardinality(Of(keys))
    BY <2>1
  <2>3. QED
    BY <1>5, <1>8, <2>2 DEF f

(* There is an order to rank by, and what is ranked is what was counted.       *)
RankedBy(order, counts, n) ==
  /\ order \in [1..n -> DOMAIN counts]
  /\ \A i, j \in 1..n : i < j => order[i] # order[j] /\ counts[order[i]] >= counts[order[j]]

LEMMA RankingExists ==
  ASSUME NEW keys, IsFiniteSet(keys), NEW counts \in [keys -> Nat]
  PROVE  \E order : RankedBy(order, counts, Cardinality(keys))
<1> DEFINE n == Cardinality(keys)
<1>1. n \in Nat
  BY FS_CardinalityType
<1>2. PICK place \in Bijection(keys, 1..n) : TRUE
  <2>1. IsFiniteSet(1..n) /\ Cardinality(1..n) = n
    BY <1>1, FS_Interval
  <2>2. ExistsBijection(keys, 1..n)
    BY <2>1, FS_SameCardinalityBij
  <2>3. QED
    BY <2>2 DEF ExistsBijection
<1>3. /\ \A k \in keys : place[k] \in Nat
      /\ \A k, other \in keys : place[k] = place[other] => k = other
  <2>1. place \in [keys -> 1..n] /\ \A k, other \in keys : place[k] = place[other] => k = other
    BY <1>2 DEF Bijection, Injection, IsInjective
  <2>2. QED
    BY <1>1, <2>1
<1> DEFINE Above(k, other) == counts[k] > counts[other] \/ (counts[k] = counts[other] /\ place[k] < place[other])
           R == {p \in keys \X keys : Above(p[1], p[2])}
<1>4. \A k, other \in keys : <<k, other>> \in R <=> Above(k, other)
  OBVIOUS
<1>5. \A k \in keys : counts[k] \in Nat
  OBVIOUS
<1>6. Linear(R, keys)
  <2>1. \A k \in keys : ~Above(k, k)
    BY <1>3, <1>5
  <2>2. \A x, y, z \in keys : Above(x, y) /\ Above(y, z) => Above(x, z)
    BY <1>3, <1>5
  <2>3. \A x, y \in keys : x # y => Above(x, y) \/ Above(y, x)
    <3>1. ASSUME NEW x \in keys, NEW y \in keys, x # y
          PROVE  Above(x, y) \/ Above(y, x)
      <4>1. place[x] # place[y] /\ place[x] \in Nat /\ place[y] \in Nat /\ counts[x] \in Nat /\ counts[y] \in Nat
        BY <1>3, <1>5, <3>1
      <4>2. QED
        BY <4>1
    <3>2. QED
      BY <3>1
  <2> HIDE DEF R, Above
  <2>4. QED
    BY <1>4, <2>1, <2>2, <2>3 DEF Linear
<1>7. \A k, other \in keys : Above(k, other) => k # other /\ counts[k] >= counts[other]
  BY <1>3, <1>5
<1> HIDE DEF R, Above
<1>8. PICK order : Ordered(order, R, keys)
  BY <1>6, OrderExists
<1>9. /\ order \in [1..n -> keys]
      /\ \A i, j \in 1..n : i < j => <<order[i], order[j]>> \in R
  BY <1>8 DEF Ordered
<1>10. \A i, j \in 1..n : i < j => order[i] # order[j] /\ counts[order[i]] >= counts[order[j]]
  <2>1. ASSUME NEW i \in 1..n, NEW j \in 1..n, i < j
        PROVE  order[i] # order[j] /\ counts[order[i]] >= counts[order[j]]
    <3>1. order[i] \in keys /\ order[j] \in keys /\ <<order[i], order[j]>> \in R
      BY <1>9, <2>1
    <3>2. QED
      BY <1>4, <1>7, <3>1
  <2>2. QED
    BY <2>1
<1>11. QED
  BY <1>9, <1>10 DEF RankedBy

(* As it is ranked, there are the first of all, each once.                     *)
ListsAll(list, counts, n, order, limit) ==
  /\ RankedBy(order, counts, n) /\ \A k \in DOMAIN counts : \E i \in 1..n : order[i] = k
  /\ list = [i \in 1..(IF n < limit THEN n ELSE limit) |-> [name |-> order[i], count |-> counts[order[i]]]]

LEMMA RankedLists ==
  ASSUME NEW keys, IsFiniteSet(keys), NEW counts \in [keys -> Nat], NEW limit \in Nat
  PROVE  \E order : ListsAll(Ranked(counts, limit), counts, Cardinality(keys), order, limit)
<1> DEFINE n == Cardinality(keys)
           Space == [1..n -> keys]
           Falls(seq) == \A i, j \in DOMAIN seq : i < j => seq[i] # seq[j] /\ counts[seq[i]] >= counts[seq[j]]
           order == CHOOSE seq \in Space : Falls(seq)
           listed == [i \in DOMAIN order |-> [name |-> order[i], count |-> counts[order[i]]]]
           some == IF n < limit THEN n ELSE limit
<1>1. n \in Nat /\ DOMAIN counts = keys
  BY FS_CardinalityType
<1>2. Ranked(counts, limit) = First(listed, limit)
  BY <1>1 DEF Ranked
<1>3. order \in Space /\ Falls(order)
  <2>1. PICK seq : RankedBy(seq, counts, n)
    BY RankingExists
  <2>2. seq \in Space /\ Falls(seq)
    BY <1>1, <2>1 DEF RankedBy
  <2> HIDE DEF Space, Falls
  <2>3. QED
    BY <2>2
<1>4. order \in [1..n -> keys] /\ RankedBy(order, counts, n)
  BY <1>1, <1>3 DEF RankedBy
<1> HIDE DEF order
<1>5. \A k \in keys : \E i \in 1..n : order[i] = k
  <2>1. \A i, j \in 1..n : order[i] = order[j] => i = j
    <3>1. ASSUME NEW i \in 1..n, NEW j \in 1..n, order[i] = order[j]
          PROVE  i = j
      <4>1. i \in Int /\ j \in Int /\ ~(i < j) /\ ~(j < i)
        BY <1>1, <1>4, <3>1 DEF RankedBy
      <4>2. QED
        BY <4>1
    <3>2. QED
      BY <3>1
  <2>2. order \in Injection(1..n, keys)
    BY <1>4, <2>1 DEF Injection, IsInjective
  <2>3. IsFiniteSet(1..n) /\ Cardinality(1..n) = n
    BY <1>1, FS_Interval
  <2>4. order \in Surjection(1..n, keys)
    BY <2>2, <2>3, FS_Injection
  <2>5. QED
    BY <2>4 DEF Surjection
<1>6. First(listed, limit) = [i \in 1..some |-> listed[i]]
  <2>1. DOMAIN listed = 1..n
    BY <1>4
  <2> DEFINE V == {listed[i] : i \in 1..n}
  <2>2. listed \in [1..n -> V]
    BY <2>1
  <2> HIDE DEF listed, V
  <2>3. listed \in Seq(V) /\ Len(listed) = n
    BY <1>1, <2>1, <2>2, IsASeq, LenProperties
  <2>4. some \in 0..n
    BY <1>1
  <2>5. First(listed, limit) = SubSeq(listed, 1, some)
    BY <2>3 DEF First
  <2>6. SubSeq(listed, 1, some) = [i \in 1..some |-> listed[1 + i - 1]]
    BY <2>3, <2>4, SubSeqProperties
  <2>7. \A i \in 1..some : 1 + i - 1 = i
    BY <2>4
  <2>8. QED
    BY <2>5, <2>6, <2>7
<1>7. \A i \in 1..some : i \in 1..n /\ listed[i] = [name |-> order[i], count |-> counts[order[i]]]
  BY <1>1, <1>4
<1>8. Ranked(counts, limit) = [i \in 1..some |-> [name |-> order[i], count |-> counts[order[i]]]]
  <2> HIDE DEF listed
  <2>1. Ranked(counts, limit) = [i \in 1..some |-> listed[i]]
    BY <1>2, <1>6
  <2>2. QED
    BY <1>7, <2>1
<1>9. QED
  BY <1>1, <1>4, <1>5, <1>8 DEF ListsAll

(* There are no more keys than there are rows. *)
KeysOf(rows, key) == {key[row] : row \in rows}

LEMMA KeysAreFew ==
  ASSUME NEW rows, IsFiniteSet(rows), NEW V, NEW key \in [rows -> V]
  PROVE  /\ IsFiniteSet(KeysOf(rows, key)) /\ Cardinality(KeysOf(rows, key)) \in Nat
         /\ Cardinality(KeysOf(rows, key)) <= Cardinality(rows) /\ key \in [rows -> KeysOf(rows, key)]
<1> DEFINE keys == KeysOf(rows, key)
<1>1. key \in [rows -> keys]
  BY DEF KeysOf
<1>2. key \in Surjection(rows, keys)
  BY <1>1 DEF Surjection, KeysOf
<1> HIDE DEF keys
<1>3. IsFiniteSet(keys) /\ Cardinality(keys) <= Cardinality(rows)
  BY <1>2, FS_Surjection
<1>4. Cardinality(keys) \in Nat
  BY <1>3, FS_CardinalityType
<1>5. QED
  BY <1>1, <1>3, <1>4 DEF keys

CountsIn(rows, keys, key) == [k \in keys |-> Cardinality(Part(rows, key, k))]

LEMMA CountsAreNumbers ==
  ASSUME NEW rows, IsFiniteSet(rows), NEW keys, NEW key
  PROVE  CountsIn(rows, keys, key) \in [keys -> Nat]
<1>1. ASSUME NEW k \in keys
      PROVE  Cardinality(Part(rows, key, k)) \in Nat
  <2>1. Part(rows, key, k) \in SUBSET rows
    BY DEF Part
  <2>2. QED
    BY <2>1, FS_Subset, FS_CardinalityType
<1>2. QED
  BY <1>1 DEF CountsIn

(* What is ranked adds up, if nothing is cut off. *)
LEMMA RankedAddsUp ==
  ASSUME NEW rows, IsFiniteSet(rows), NEW keys, IsFiniteSet(keys), NEW key \in [rows -> keys],
         NEW limit \in Nat, NEW list, NEW order,
         ListsAll(list, CountsIn(rows, keys, key), Cardinality(keys), order, limit),
         Cardinality(keys) <= limit
  PROVE  /\ DOMAIN list = 1..Cardinality(keys)
         /\ SumFunction([i \in DOMAIN list |-> list[i].count]) = Cardinality(rows)
<1> DEFINE n == Cardinality(keys)
           counts == CountsIn(rows, keys, key)
           place == [row \in rows |-> CHOOSE i \in 1..n : order[i] = key[row]]
<1>1. n \in Nat
  BY FS_CardinalityType
<1>2. DOMAIN counts = keys /\ \A k \in keys : counts[k] = Cardinality(Part(rows, key, k))
  BY DEF CountsIn
<1>3. /\ order \in [1..n -> keys]
      /\ \A i, j \in 1..n : i < j => order[i] # order[j]
      /\ \A k \in keys : \E i \in 1..n : order[i] = k
      /\ list = [i \in 1..(IF n < limit THEN n ELSE limit) |-> [name |-> order[i], count |-> counts[order[i]]]]
  BY <1>2 DEF ListsAll, RankedBy
<1>4. (IF n < limit THEN n ELSE limit) = n
  BY <1>1
<1>5. list = [i \in 1..n |-> [name |-> order[i], count |-> counts[order[i]]]]
  BY <1>3, <1>4
<1> HIDE DEF counts
<1>6. \A row \in rows : place[row] \in 1..n /\ order[place[row]] = key[row]
  <2>1. \A row \in rows : key[row] \in keys
    OBVIOUS
  <2>2. QED
    BY <1>3, <2>1
<1>7. place \in [rows -> 1..n]
  BY <1>6
<1> HIDE DEF place
<1>8. \A i \in 1..n : order[i] \in keys /\ Part(rows, place, i) = Part(rows, key, order[i])
  <2>1. ASSUME NEW i \in 1..n, NEW row \in rows
        PROVE  place[row] = i <=> key[row] = order[i]
    <3>1. place[row] \in 1..n /\ order[place[row]] = key[row]
      BY <1>6
    <3>2. place[row] \in Int /\ i \in Int /\ (order[place[row]] = order[i] => ~(place[row] < i) /\ ~(i < place[row]))
      BY <1>1, <1>3, <3>1
    <3>3. QED
      BY <3>1, <3>2
  <2>2. QED
    BY <1>3, <2>1 DEF Part
<1>9. [i \in DOMAIN list |-> list[i].count] = [i \in 1..n |-> Cardinality(Part(rows, place, i))]
  <2>1. DOMAIN list = 1..n /\ \A i \in 1..n : list[i].count = counts[order[i]]
    BY <1>5
  <2>2. \A i \in 1..n : counts[order[i]] = Cardinality(Part(rows, place, i))
    BY <1>2, <1>8 DEF counts
  <2>3. QED
    BY <2>1, <2>2
<1>10. IsFiniteSet(1..n)
  BY <1>1, FS_Interval
<1>11. SumFunction([i \in 1..n |-> Cardinality(Part(rows, place, i))]) = Cardinality(rows)
  BY ONLY <1>7, <1>10, IsFiniteSet(rows), PartsAddUp
<1>12. QED
  BY <1>5, <1>9, <1>11

-----------------------------------------------------------------------------
(* What is counted, by room, by day, by kind and by person                     *)

(* What is joined has what either has. *)
LEMMA JoinedHas ==
  ASSUME NEW f, NEW g
  PROVE  /\ \A k \in DOMAIN f : k \in DOMAIN Joined(f, g) /\ Joined(f, g)[k] = f[k]
         /\ \A k \in DOMAIN g : k \notin DOMAIN f => k \in DOMAIN Joined(f, g) /\ Joined(f, g)[k] = g[k]
  BY DEF Joined

ActivityParts == {"messages", "replies", "people", "threads"}
RecencyParts == {"span", "ofDay", "ofWeek"}

LEMMA ActivityHas ==
  ASSUME NEW rows
  PROVE  /\ DOMAIN Activity(rows) = ActivityParts
         /\ Activity(rows)["messages"] = Cardinality(rows)
         /\ Activity(rows)["replies"] = Cardinality(Replied(rows))
         /\ Activity(rows)["people"] = Cardinality({row.sender : row \in rows})
         /\ Activity(rows)["threads"] = Cardinality({row.thread : row \in rows} \ {0})
  BY DEF Activity, ActivityParts

LEMMA RecencyHas ==
  ASSUME NEW rows
  PROVE  /\ DOMAIN Recency(rows) = RecencyParts
         /\ Recency(rows)["ofWeek"] = Cardinality(Since(rows, Now - 7 * Day))
  BY DEF Recency, RecencyParts

(* Joined with others, they are the same. *)
LEMMA BothJoined ==
  ASSUME NEW rows, NEW others
  PROVE  LET joined == Joined(Joined(Activity(rows), Recency(rows)), others)
         IN /\ \A part \in ActivityParts : joined[part] = Activity(rows)[part]
            /\ joined["ofWeek"] = Recency(rows)["ofWeek"]
<1> DEFINE a == Activity(rows)
           r == Recency(rows)
           both == Joined(a, r)
<1>1. DOMAIN a = ActivityParts /\ DOMAIN r = RecencyParts /\ "ofWeek" \in RecencyParts /\ "ofWeek" \notin ActivityParts
  BY ActivityHas, RecencyHas DEF ActivityParts, RecencyParts
<1> HIDE DEF a, r
<1>2. \A part \in ActivityParts : part \in DOMAIN both /\ both[part] = a[part]
  BY <1>1, JoinedHas
<1>3. "ofWeek" \in DOMAIN both /\ both["ofWeek"] = r["ofWeek"]
  BY <1>1, JoinedHas
<1> HIDE DEF both
<1>4. \A part \in DOMAIN both : Joined(both, others)[part] = both[part]
  BY JoinedHas
<1>5. QED
  BY <1>2, <1>3, <1>4 DEF a, r, both

LEMMA TotalsAre ==
  ASSUME NEW tables
  PROVE  LET rows == Public(tables.messages, tables.direct)
         IN /\ \A part \in ActivityParts : Totals(tables)[part] = Activity(rows)[part]
            /\ Totals(tables)["ofWeek"] = Recency(rows)["ofWeek"]
  BY BothJoined DEF Totals

LEMMA RoomStatsAre ==
  ASSUME NEW tables, NEW room
  PROVE  LET rows == In(tables.messages, room)
         IN /\ \A part \in ActivityParts : RoomStats(tables, room)[part] = Activity(rows)[part]
            /\ RoomStats(tables, room)["top"] = PeopleOf(rows, RoomTopPeople)
<1> DEFINE rows == In(tables.messages, room)
           others == [top |-> PeopleOf(rows, RoomTopPeople)]
           both == Joined(Activity(rows), Recency(rows))
<1>1. \A part \in ActivityParts : RoomStats(tables, room)[part] = Activity(rows)[part]
  BY BothJoined DEF RoomStats
<1>2. RoomStats(tables, room) = Joined(both, others)
  BY DEF RoomStats
<1>3. "top" \notin DOMAIN both
  <2>1. DOMAIN Activity(rows) = ActivityParts /\ DOMAIN Recency(rows) = RecencyParts
    BY ActivityHas, RecencyHas
  <2>2. DOMAIN both = ActivityParts \union RecencyParts
    BY <2>1 DEF Joined
  <2>3. QED
    BY <2>2 DEF ActivityParts, RecencyParts
<1>4. "top" \in DOMAIN others /\ others["top"] = PeopleOf(rows, RoomTopPeople)
  OBVIOUS
<1> HIDE DEF others, both, rows
<1>5. Joined(both, others)["top"] = PeopleOf(rows, RoomTopPeople)
  BY <1>3, <1>4, JoinedHas
<1>6. QED
  BY <1>1, <1>2, <1>5 DEF rows

LEMMA RoomsAre ==
  ASSUME NEW rows
  PROVE  /\ DOMAIN RoomsOf(rows) = {row.room : row \in rows}
         /\ \A room \in DOMAIN RoomsOf(rows) : \A part \in ActivityParts :
              RoomsOf(rows)[room][part] = Activity(In(rows, room))[part]
<1> DEFINE LastIn(room) == [last |-> CHOOSE ts \in {row.ts : row \in In(rows, room)} :
                                     \A row \in In(rows, room) : row.ts <= ts]
<1>1. RoomsOf(rows) = [room \in {row.room : row \in rows} |-> Joined(Activity(In(rows, room)), LastIn(room))]
  BY DEF RoomsOf
<1> HIDE DEF LastIn
<1>2. \A room : \A part \in ActivityParts :
        Joined(Activity(In(rows, room)), LastIn(room))[part] = Activity(In(rows, room))[part]
  <2>1. ASSUME NEW room, NEW part \in ActivityParts
        PROVE  Joined(Activity(In(rows, room)), LastIn(room))[part] = Activity(In(rows, room))[part]
    <3>1. part \in DOMAIN Activity(In(rows, room))
      BY ActivityHas
    <3>2. QED
      BY <3>1, JoinedHas
  <2>2. QED
    BY <2>1
<1>3. QED
  BY <1>1, <1>2

Tabled(rows) == rows \in SUBSET Said /\ IsFiniteSet(rows)

LEMMA SomeFit ==
  ASSUME NEW rows, Tabled(rows), NEW some \in SUBSET rows
  PROVE  Tabled(some) /\ Cardinality(some) \in Nat /\ Cardinality(some) <= Cardinality(rows)
<1>1. IsFiniteSet(some) /\ Cardinality(some) <= Cardinality(rows)
  BY FS_Subset DEF Tabled
<1>2. QED
  BY <1>1, FS_CardinalityType DEF Tabled

(* The rooms together have as many messages, replies and threads as all. *)
LEMMA RoomsAddUp ==
  ASSUME NEW rows, Tabled(rows), Threaded(rows)
  PROVE  /\ SumOf("messages", RoomsOf(rows)) = Activity(rows)["messages"]
         /\ SumOf("replies", RoomsOf(rows)) = Activity(rows)["replies"]
         /\ SumOf("threads", RoomsOf(rows)) = Activity(rows)["threads"]
<1> DEFINE rooms == {row.room : row \in rows}
           room == [row \in rows |-> row.room]
           told == Replied(rows)
           roomTold == [row \in told |-> row.room]
           threads == {row.thread : row \in rows} \ {0}
           of == [t \in threads |-> CHOOSE r \in rooms : \E row \in rows : row.thread = t /\ row.room = r]
           Column(part) == [r \in DOMAIN RoomsOf(rows) |-> RoomsOf(rows)[r][part]]
<1>1. /\ \A r \in rooms : \A part \in ActivityParts : RoomsOf(rows)[r][part] = Activity(In(rows, r))[part]
      /\ DOMAIN RoomsOf(rows) = rooms
  BY RoomsAre
<1>2. IsFiniteSet(rooms) /\ room \in [rows -> rooms]
  <2>1. rooms = KeysOf(rows, room)
    BY DEF KeysOf
  <2>2. room \in [rows -> rooms]
    OBVIOUS
  <2>3. IsFiniteSet(rows)
    BY DEF Tabled
  <2> HIDE DEF room, rooms
  <2>4. IsFiniteSet(KeysOf(rows, room))
    BY ONLY <2>2, <2>3, KeysAreFew
  <2>5. QED
    BY <2>1, <2>2, <2>4
<1>3. \A r \in rooms : Column("messages")[r] = Cardinality(Part(rows, room, r))
  <2>1. ASSUME NEW r \in rooms
        PROVE  RoomsOf(rows)[r]["messages"] = Cardinality(Part(rows, room, r))
    <3>1. In(rows, r) = Part(rows, room, r)
      BY DEF In, Part
    <3>2. RoomsOf(rows)[r]["messages"] = Cardinality(In(rows, r))
      BY <1>1, ActivityHas DEF ActivityParts
    <3>3. QED
      BY <3>1, <3>2
  <2> HIDE DEF rooms, room
  <2>2. QED
    BY <1>1, <2>1
<1>4. \A r \in rooms : Column("replies")[r] = Cardinality(Part(told, roomTold, r))
  <2>1. ASSUME NEW r \in rooms
        PROVE  RoomsOf(rows)[r]["replies"] = Cardinality(Part(told, roomTold, r))
    <3>1. Replied(In(rows, r)) = Part(told, roomTold, r)
      BY DEF In, Part, Replied
    <3>2. RoomsOf(rows)[r]["replies"] = Cardinality(Replied(In(rows, r)))
      BY <1>1, ActivityHas DEF ActivityParts
    <3>3. QED
      BY <3>1, <3>2
  <2> HIDE DEF rooms, told, roomTold
  <2>2. QED
    BY <1>1, <2>1
<1>5. \A t \in threads : of[t] \in rooms /\ \E row \in rows : row.thread = t /\ row.room = of[t]
  <2>1. ASSUME NEW t \in threads
        PROVE  \E r \in rooms : \E row \in rows : row.thread = t /\ row.room = r
    OBVIOUS
  <2> DEFINE Right(t, r) == \E row \in rows : row.thread = t /\ row.room = r
  <2>2. \A t \in threads : of[t] = CHOOSE r \in rooms : Right(t, r)
    OBVIOUS
  <2>3. \A t \in threads : \E r \in rooms : Right(t, r)
    BY <2>1
  <2> HIDE DEF Right, threads, rooms, of
  <2>4. \A t \in threads : of[t] \in rooms /\ Right(t, of[t])
    BY <2>2, <2>3
  <2>5. QED
    BY <2>4 DEF Right
<1>6. \A r \in rooms : Column("threads")[r] = Cardinality(Part(threads, of, r))
  <2>1. ASSUME NEW r \in rooms
        PROVE  RoomsOf(rows)[r]["threads"] = Cardinality(Part(threads, of, r))
    <3>1. ASSUME NEW t
          PROVE  t \in {row.thread : row \in In(rows, r)} \ {0} <=> t \in Part(threads, of, r)
      <4>1. ASSUME t \in {row.thread : row \in In(rows, r)} \ {0}
            PROVE  t \in Part(threads, of, r)
        <5>1. PICK row \in rows : row.room = r /\ row.thread = t /\ t # 0
          BY <4>1 DEF In
        <5>2. t \in threads
          BY <5>1
        <5>3. PICK other \in rows : other.thread = t /\ other.room = of[t]
          BY <1>5, <5>2
        <5>4. other.room = row.room
          BY <5>1, <5>3 DEF Threaded
        <5>5. QED
          BY <5>1, <5>2, <5>3, <5>4 DEF Part
      <4>2. ASSUME t \in Part(threads, of, r)
            PROVE  t \in {row.thread : row \in In(rows, r)} \ {0}
        <5>1. t \in threads /\ of[t] = r
          BY <4>2 DEF Part
        <5>2. PICK row \in rows : row.thread = t /\ row.room = r
          BY <1>5, <5>1
        <5>3. row \in In(rows, r) /\ t # 0
          BY <5>1, <5>2 DEF In
        <5>4. QED
          BY <5>2, <5>3
      <4>3. QED
        BY <4>1, <4>2
    <3>2. {row.thread : row \in In(rows, r)} \ {0} = Part(threads, of, r)
      BY <3>1
    <3>3. RoomsOf(rows)[r]["threads"] = Cardinality({row.thread : row \in In(rows, r)} \ {0})
      BY <1>1, ActivityHas DEF ActivityParts
    <3>4. QED
      BY <3>2, <3>3
  <2> HIDE DEF rooms, threads, of
  <2>2. QED
    BY <1>1, <2>1
<1>7. IsFiniteSet(told) /\ roomTold \in [told -> rooms]
  <2>1. told \in SUBSET rows
    BY DEF Replied
  <2>2. IsFiniteSet(told)
    BY <2>1, FS_Subset DEF Tabled
  <2>3. QED
    BY <2>1, <2>2
<1>8. IsFiniteSet(threads) /\ of \in [threads -> rooms]
  <2> DEFINE thread == [row \in rows |-> row.thread]
             all == KeysOf(rows, thread)
  <2>1. thread \in [rows -> all]
    BY DEF KeysOf
  <2>2. IsFiniteSet(all)
    <3>1. IsFiniteSet(rows)
      BY DEF Tabled
    <3> HIDE DEF thread
    <3>2. IsFiniteSet(KeysOf(rows, thread))
      BY ONLY <2>1, <3>1, KeysAreFew
    <3>3. QED
      BY <3>2 DEF all
  <2>3. threads = all \ {0}
    BY DEF KeysOf
  <2>4. IsFiniteSet(threads)
    <3> HIDE DEF all, threads
    <3>1. QED
      BY <2>2, <2>3, FS_Difference
  <2>5. QED
    BY <1>5, <2>4
<1>9. \A part : SumOf(part, RoomsOf(rows)) = SumFunction(Column(part)) /\ DOMAIN Column(part) = rooms
  BY <1>1 DEF SumOf
<1>10. Column("messages") = [r \in rooms |-> Cardinality(Part(rows, room, r))]
  <2> HIDE DEF Column, room, rooms
  <2>1. Column("messages") = [r \in DOMAIN Column("messages") |-> Column("messages")[r]]
    BY DEF Column
  <2>2. QED
    BY <1>3, <1>9, <2>1
<1>11. Column("replies") = [r \in rooms |-> Cardinality(Part(told, roomTold, r))]
  <2> HIDE DEF Column, told, roomTold, rooms
  <2>1. Column("replies") = [r \in DOMAIN Column("replies") |-> Column("replies")[r]]
    BY DEF Column
  <2>2. QED
    BY <1>4, <1>9, <2>1
<1>12. Column("threads") = [r \in rooms |-> Cardinality(Part(threads, of, r))]
  <2> HIDE DEF Column, threads, of, rooms
  <2>1. Column("threads") = [r \in DOMAIN Column("threads") |-> Column("threads")[r]]
    BY DEF Column
  <2>2. QED
    BY <1>6, <1>9, <2>1
<1> HIDE DEF Column, rooms, room, told, roomTold, threads, of
<1>13. SumFunction(Column("messages")) = Cardinality(rows)
  BY <1>2, <1>10, PartsAddUp DEF Tabled
<1>14. SumFunction(Column("replies")) = Cardinality(told)
  BY <1>2, <1>7, <1>11, PartsAddUp
<1>15. SumFunction(Column("threads")) = Cardinality(threads)
  BY <1>2, <1>8, <1>12, PartsAddUp
<1>16. QED
  BY <1>9, <1>13, <1>14, <1>15, ActivityHas DEF told, threads

(* A breakdown that is shorter than it may be is complete. *)
BreaksDown(list, rows, key, limit) ==
  /\ DOMAIN list \subseteq 1..Cardinality(KeysOf(rows, key))
  /\ Len(list) < limit => Cardinality(KeysOf(rows, key)) <= limit
  /\ \A i \in DOMAIN list : \E row \in rows : list[i].name = key[row]
  /\ Cardinality(KeysOf(rows, key)) <= limit =>
       /\ DOMAIN list = 1..Cardinality(KeysOf(rows, key))
       /\ Len(list) = Cardinality(KeysOf(rows, key))
       /\ SumFunction([i \in DOMAIN list |-> list[i].count]) = Cardinality(rows)

LEMMA BrokenDown ==
  ASSUME NEW rows, IsFiniteSet(rows), NEW V, NEW key \in [rows -> V], NEW limit \in Nat
  PROVE  BreaksDown(Ranked(CountsIn(rows, KeysOf(rows, key), key), limit), rows, key, limit)
<1> DEFINE keys == KeysOf(rows, key)
           n == Cardinality(keys)
           counts == CountsIn(rows, keys, key)
           list == Ranked(counts, limit)
<1>1. IsFiniteSet(keys) /\ n \in Nat /\ key \in [rows -> keys]
  BY KeysAreFew
<1>2. \A k \in keys : \E row \in rows : k = key[row]
  BY DEF KeysOf
<1> HIDE DEF keys
<1>3. counts \in [keys -> Nat]
  BY <1>1, CountsAreNumbers
<1>4. list = Ranked(counts, limit)
  OBVIOUS
<1> HIDE DEF list
<1>5. PICK order : ListsAll(list, counts, n, order, limit)
  <2> HIDE DEF counts
  <2>1. QED
    BY <1>1, <1>3, <1>4, RankedLists
<1>6. DOMAIN counts = keys
  BY <1>3
<1>7. list = [i \in 1..(IF n < limit THEN n ELSE limit) |-> [name |-> order[i], count |-> counts[order[i]]]]
      /\ order \in [1..n -> keys]
  BY <1>5, <1>6 DEF ListsAll, RankedBy
<1> DEFINE some == IF n < limit THEN n ELSE limit
<1>8. some \in Nat /\ some <= n /\ some <= limit /\ (some < limit => n <= limit) /\ (n <= limit => some = n)
  BY <1>1
<1> HIDE DEF some, counts, n
<1>9. DOMAIN list = 1..some /\ \A i \in 1..some : list[i].name = order[i]
  BY <1>7 DEF some
<1>10. Len(list) = some
  <2>1. list \in Seq({list[i] : i \in 1..some})
    <3> DEFINE W == {list[i] : i \in 1..some}
    <3>1. list = [i \in 1..some |-> list[i]]
      BY <1>7 DEF some
    <3>2. \A i \in 1..some : list[i] \in W
      OBVIOUS
    <3> HIDE DEF W
    <3>3. list \in [1..some -> W]
      BY <3>1, <3>2
    <3>4. list \in Seq(W)
      BY ONLY <1>8, <3>3, IsASeq
    <3>5. QED
      BY <3>4 DEF W
  <2>2. QED
    BY <1>8, <1>9, <2>1, LenProperties
<1>11. DOMAIN list \subseteq 1..n
  BY <1>1, <1>8, <1>9
<1>12. \A i \in DOMAIN list : \E row \in rows : list[i].name = key[row]
  <2>1. ASSUME NEW i \in DOMAIN list
        PROVE  \E row \in rows : list[i].name = key[row]
    <3>1. order[i] \in keys
      BY <1>7, <1>11
    <3>2. QED
      BY <1>2, <1>9, <3>1
  <2>2. QED
    BY <2>1
<1>13. ASSUME n <= limit
       PROVE  DOMAIN list = 1..n /\ SumFunction([i \in DOMAIN list |-> list[i].count]) = Cardinality(rows)
  <2>1. ListsAll(list, CountsIn(rows, keys, key), Cardinality(keys), order, limit) /\ Cardinality(keys) <= limit
    BY <1>5, <1>13 DEF n, counts
  <2>2. QED
    BY <1>1, <2>1, RankedAddsUp DEF n
<1>14. QED
  BY <1>8, <1>9, <1>10, <1>11, <1>12, <1>13 DEF n, keys, counts, list, BreaksDown

LEMMA IntentsAddUp ==
  ASSUME NEW rows, Tabled(rows)
  PROVE  SumOf("count", Ranked(CountsBy(LAMBDA row : row.intent, rows), Cardinality(rows))) = Cardinality(rows)
<1> DEFINE key == [row \in rows |-> row.intent]
           list == Ranked(CountsIn(rows, KeysOf(rows, key), key), Cardinality(rows))
<1>1. CountsBy(LAMBDA row : row.intent, rows) = CountsIn(rows, KeysOf(rows, key), key)
  BY DEF CountsBy, CountsIn, KeysOf, Part
<1>2. IsFiniteSet(rows) /\ key \in [rows -> STRING]
  BY DEF Tabled, Said
<1>3. Cardinality(rows) \in Nat
  BY <1>2, FS_CardinalityType
<1> HIDE DEF key
<1>4. Cardinality(KeysOf(rows, key)) <= Cardinality(rows)
  BY <1>2, KeysAreFew
<1>5. list = Ranked(CountsIn(rows, KeysOf(rows, key), key), Cardinality(rows))
  OBVIOUS
<1> HIDE DEF list
<1>6. SumFunction([i \in DOMAIN list |-> list[i].count]) = Cardinality(rows)
  <2>1. BreaksDown(list, rows, key, Cardinality(rows))
    BY <1>2, <1>3, <1>5, BrokenDown
  <2>2. QED
    BY <1>4, <2>1 DEF BreaksDown
<1>7. SumOf("count", list) = SumFunction([i \in DOMAIN list |-> list[i].count])
  BY DEF SumOf
<1>8. QED
  BY <1>1, <1>5, <1>6, <1>7

LEMMA KindsAddUp ==
  ASSUME NEW tables, Tabled(Public(tables.messages, tables.direct))
  PROVE  LET kinds == KindsOf(tables)
         IN Len(kinds) < TopLimit =>
              SumOf("count", kinds) = Cardinality(Replied(Public(tables.messages, tables.direct)))
<1> DEFINE rows == Replied(Public(tables.messages, tables.direct))
           key == [row \in rows |-> row.reply]
           list == KindsOf(tables)
<1>1. CountsBy(LAMBDA row : row.reply, rows) = CountsIn(rows, KeysOf(rows, key), key)
  BY DEF CountsBy, CountsIn, KeysOf, Part
<1>2. Tabled(rows)
  <2>1. rows \in SUBSET Public(tables.messages, tables.direct)
    BY DEF Replied
  <2>2. QED
    BY <2>1, SomeFit
<1> HIDE DEF rows
<1>3. IsFiniteSet(rows) /\ key \in [rows -> STRING]
  BY <1>2 DEF Tabled, Said
<1>4. TopLimit \in Nat
  BY StatsAssumption
<1>5. list = Ranked(CountsIn(rows, KeysOf(rows, key), key), TopLimit)
  BY <1>1 DEF KindsOf, rows
<1> HIDE DEF key, list
<1>6. Len(list) < TopLimit => SumFunction([i \in DOMAIN list |-> list[i].count]) = Cardinality(rows)
  <2>1. BreaksDown(list, rows, key, TopLimit)
    BY <1>3, <1>4, <1>5, BrokenDown
  <2>2. QED
    BY <2>1 DEF BreaksDown
<1>7. SumOf("count", list) = SumFunction([i \in DOMAIN list |-> list[i].count])
  BY DEF SumOf
<1>8. QED
  BY <1>6, <1>7 DEF list, rows

Senders(rows) == [row \in rows |-> row.sender]

LEMMA PeopleAre ==
  ASSUME NEW rows, Tabled(rows), NEW limit \in Nat
  PROVE  \E top : /\ BreaksDown(top, rows, Senders(rows), limit)
                  /\ DOMAIN PeopleOf(rows, limit) = DOMAIN top
                  /\ \A i \in DOMAIN top : /\ PeopleOf(rows, limit)[i].name = NameOf(top[i].name, rows)
                                           /\ PeopleOf(rows, limit)[i].messages = top[i].count
<1> DEFINE key == Senders(rows)
           top == Ranked(CountsIn(rows, KeysOf(rows, key), key), limit)
           Counts(i) == Cardinality({row \in Replied(rows) : row.sender = top[i].name})
<1>1. CountsBy(LAMBDA row : row.sender, rows) = CountsIn(rows, KeysOf(rows, key), key)
  BY DEF CountsBy, CountsIn, KeysOf, Part, Senders
<1>2. IsFiniteSet(rows) /\ key \in [rows -> Nat]
  BY DEF Tabled, Said, Senders
<1>3. BreaksDown(top, rows, Senders(rows), limit)
  BY <1>2, BrokenDown
<1>4. PeopleOf(rows, limit) = [i \in DOMAIN top |-> [name |-> NameOf(top[i].name, rows), messages |-> top[i].count,
                                                    replies |-> Counts(i)]]
  BY <1>1 DEF PeopleOf
<1> HIDE DEF top, Counts
<1>5. QED
  BY <1>3, <1>4

(* As long as there are no more people than are shown, they said everything. *)
LEMMA PeopleAddUp ==
  ASSUME NEW rows, Tabled(rows), NEW limit \in Nat, Activity(rows)["people"] <= limit
  PROVE  /\ Len(PeopleOf(rows, limit)) = Activity(rows)["people"]
         /\ SumOf("messages", PeopleOf(rows, limit)) = Cardinality(rows)
<1> DEFINE people == PeopleOf(rows, limit)
           n == Cardinality(KeysOf(rows, Senders(rows)))
<1>1. PICK top : /\ BreaksDown(top, rows, Senders(rows), limit)
                 /\ DOMAIN people = DOMAIN top
                 /\ \A i \in DOMAIN top : people[i].messages = top[i].count
  BY PeopleAre
<1>2. Activity(rows)["people"] = n
  <2>1. KeysOf(rows, Senders(rows)) = {row.sender : row \in rows}
    BY DEF KeysOf, Senders
  <2>2. QED
    BY <2>1, ActivityHas
<1>3. n \in Nat
  <2>1. Senders(rows) \in [rows -> Nat] /\ IsFiniteSet(rows)
    BY DEF Senders, Tabled, Said
  <2>2. QED
    BY <2>1, KeysAreFew
<1> HIDE DEF people, n
<1>4. DOMAIN top = 1..n /\ SumFunction([i \in DOMAIN top |-> top[i].count]) = Cardinality(rows)
  BY <1>1, <1>2 DEF BreaksDown, n
<1>5. SumOf("messages", people) = Cardinality(rows)
  <2>1. [i \in DOMAIN people |-> people[i]["messages"]] = [i \in DOMAIN top |-> top[i].count]
    BY <1>1
  <2>2. QED
    BY <1>4, <2>1 DEF SumOf
<1>6. Len(people) = n
  <2> DEFINE W == {people[i] : i \in 1..n}
  <2>1. people = [i \in DOMAIN people |-> people[i]]
    BY DEF people, PeopleOf
  <2>2. people \in [1..n -> W]
    BY <1>1, <1>4, <2>1
  <2> HIDE DEF W
  <2>3. people \in Seq(W)
    BY ONLY <1>3, <2>2, IsASeq
  <2>4. QED
    BY <1>1, <1>3, <1>4, <2>3, LenProperties
<1>7. QED
  BY <1>2, <1>5, <1>6 DEF people

(* Who is shown said something, and is called as they were then. *)
LEMMA TopsSpoke ==
  ASSUME NEW rows, Tabled(rows), NEW limit \in Nat, NEW i \in DOMAIN PeopleOf(rows, limit)
  PROVE  \E row \in rows : PeopleOf(rows, limit)[i].name \in {<<"id", row.sender>>, <<"name", row.name>>}
<1> DEFINE people == PeopleOf(rows, limit)
<1>1. PICK top : /\ BreaksDown(top, rows, Senders(rows), limit)
                 /\ DOMAIN people = DOMAIN top
                 /\ \A j \in DOMAIN top : people[j].name = NameOf(top[j].name, rows)
  BY PeopleAre
<1>2. PICK row \in rows : top[i].name = row.sender
  BY <1>1 DEF BreaksDown, Senders
<1> DEFINE ofSender == {r \in rows : r.sender = row.sender}
           names == {r.name : r \in ofSender} \ {0}
<1>3. people[i].name = NameOf(row.sender, rows)
  BY <1>1, <1>2
<1>4. NameOf(row.sender, rows) =
        IF names = {} THEN <<"id", row.sender>>
        ELSE <<"name", CHOOSE name \in names : \A other \in names : other <= name>>
  BY DEF NameOf
<1>5. CASE names = {}
  BY <1>3, <1>4, <1>5
<1>6. CASE names # {}
  <2>1. IsFiniteSet(names) /\ names \in SUBSET Nat
    <3> DEFINE called == [r \in ofSender |-> r.name]
    <3>1. Tabled(ofSender)
      BY SomeFit
    <3>2. IsFiniteSet(ofSender) /\ called \in [ofSender -> Nat]
      BY <3>1 DEF Tabled, Said
    <3>3. names = KeysOf(ofSender, called) \ {0} /\ names \in SUBSET Nat
      BY <3>2 DEF KeysOf
    <3> HIDE DEF ofSender, called
    <3>4. IsFiniteSet(KeysOf(ofSender, called))
      BY <3>2, KeysAreFew
    <3> HIDE DEF names
    <3>5. QED
      BY <3>3, <3>4, FS_Difference
  <2> DEFINE name == CHOOSE m \in names : \A other \in names : other <= m
  <2>2. name \in names
    <3> HIDE DEF names
    <3>1. \E m \in names : \A other \in names : m >= other
      BY <1>6, <2>1, GreatestOfFinite
    <3>2. \E m \in names : \A other \in names : other <= m
      <4>1. PICK m \in names : \A other \in names : m >= other
        BY <3>1
      <4>2. \A other \in names : other <= m
        BY <2>1, <4>1
      <4>3. QED
        BY <4>2
    <3>3. QED
      BY <3>2
  <2>3. PICK r \in rows : r.name = name
    BY <2>2
  <2>4. people[i].name = <<"name", r.name>>
    BY <1>3, <1>4, <1>6, <2>3
  <2>5. QED
    BY <2>4
<1>7. QED
  BY <1>5, <1>6

ShownFor == DailyWindow * Day

LEMMA WindowIs ==
  /\ ShownFor \in Nat /\ 7 * Day \in Nat /\ 7 * Day <= ShownFor /\ Now \in Nat
  /\ Day \in Nat \ {0} /\ DailyWindow \in Nat
<1>1. Day \in Nat \ {0} /\ DailyWindow \in Nat /\ DailyWindow >= 7 /\ Now \in Nat
  BY StatsAssumption
<1>2. ShownFor \in Nat /\ 7 * Day <= ShownFor
  <2> DEFINE more == DailyWindow - 7
  <2>1. more \in Nat /\ DailyWindow = 7 + more
    BY <1>1
  <2> HIDE DEF more
  <2>2. ShownFor = 7 * Day + more * Day /\ more * Day \in Nat /\ 7 * Day \in Nat
    BY <1>1, <2>1 DEF ShownFor
  <2>3. QED
    BY <2>2
<1>3. QED
  BY <1>1, <1>2

(* What is shown by day is what the window has, which has the week. *)
LEMMA DaysAddUp ==
  ASSUME NEW rows, Tabled(rows)
  PROVE  SumOf("messages", Daily(rows)) \in Recency(rows)["ofWeek"]..Cardinality(rows)
<1> DEFINE shown == Since(rows, Now - DailyWindow * Day)
           key == [row \in shown |-> row.ts \div Day]
           days == KeysOf(shown, key)
           RepliesOn(day) == Cardinality(Replied({row \in shown : row.ts \div Day = day}))
<1>1. shown = Since(rows, Now - ShownFor)
  BY DEF ShownFor
<1>2. shown \in SUBSET rows /\ Since(rows, Now - 7 * Day) \in SUBSET shown
  <2>1. \A row \in rows : row.ts \in Nat
    BY DEF Tabled, Said
  <2> HIDE DEF shown
  <2>2. \A ts \in Nat : ts >= Now - 7 * Day => ts >= Now - ShownFor
    BY WindowIs
  <2>3. QED
    BY <1>1, <2>1, <2>2 DEF Since
<1>3. Tabled(shown) /\ Cardinality(shown) \in Nat /\ Cardinality(shown) <= Cardinality(rows)
  BY <1>2, SomeFit
<1>4. Cardinality(Since(rows, Now - 7 * Day)) \in Nat
      /\ Cardinality(Since(rows, Now - 7 * Day)) <= Cardinality(shown)
  <2> HIDE DEF shown
  <2>1. QED
    BY <1>2, <1>3, SomeFit
<1>5. days = {row.ts \div Day : row \in shown}
  BY DEF KeysOf
<1>6. \A day : {row \in shown : row.ts \div Day = day} = Part(shown, key, day)
  BY DEF Part
<1>7. Daily(rows) = [day \in days |-> [messages |-> Cardinality(Part(shown, key, day)), replies |-> RepliesOn(day)]]
  BY <1>5, <1>6 DEF Daily
<1>8. IsFiniteSet(shown) /\ key \in [shown -> Int]
  <2>1. \A row \in shown : row.ts \div Day \in Int
    <3>1. \A row \in shown : row.ts \in Nat
      BY <1>3 DEF Tabled, Said
    <3>2. \A row \in shown : row.ts \div Day \in Int
      <4> HIDE DEF shown
      <4>1. QED
        BY <3>1, WindowIs
    <3>3. QED
      BY <3>2
  <2>2. QED
    BY <1>3, <2>1 DEF Tabled
<1> HIDE DEF shown, key, RepliesOn
<1>9. IsFiniteSet(days) /\ key \in [shown -> days]
  BY <1>8, KeysAreFew
<1> HIDE DEF days
<1>10. SumOf("messages", Daily(rows)) = SumFunction([day \in days |-> Cardinality(Part(shown, key, day))])
  <2>1. DOMAIN Daily(rows) = days /\ \A day \in days : Daily(rows)[day]["messages"] = Cardinality(Part(shown, key, day))
    BY <1>7
  <2>2. [day \in DOMAIN Daily(rows) |-> Daily(rows)[day]["messages"]] = [day \in days |-> Cardinality(Part(shown, key, day))]
    BY <2>1
  <2>3. QED
    BY <2>2 DEF SumOf
<1>11. SumOf("messages", Daily(rows)) = Cardinality(shown)
  BY <1>8, <1>9, <1>10, PartsAddUp
<1>12. Recency(rows)["ofWeek"] = Cardinality(Since(rows, Now - 7 * Day)) /\ Cardinality(rows) \in Nat
  BY RecencyHas, FS_CardinalityType DEF Tabled
<1>13. QED
  BY <1>3, <1>4, <1>11, <1>12

(* The days up to today are as many as the window has, and one. *)
LEMMA DaysAreFew ==
  ASSUME NEW rows, Tabled(rows)
  PROVE  Cardinality({day \in DOMAIN Daily(rows) : day <= Now \div Day}) <= DailyWindow + 1
<1> DEFINE shown == Since(rows, Now - DailyWindow * Day)
           today == Now \div Day
           some == {day \in DOMAIN Daily(rows) : day <= today}
           window == (today - DailyWindow)..today
<1>1. DOMAIN Daily(rows) = {row.ts \div Day : row \in shown}
  BY DEF Daily
<1>2. ASSUME NEW ts \in Nat, ts >= Now - ShownFor
      PROVE  ts \div Day \in Int /\ ts \div Day >= today - DailyWindow
  <2> DEFINE day == ts \div Day
             missing == today - DailyWindow - 1 - day
  <2>1. day \in Int /\ ts < Day * day + Day /\ today \in Int /\ Day * today <= Now
    <3>1. day \in Int /\ Day * day <= ts /\ ts < Day * day + Day
      BY WindowIs
    <3>2. today \in Int /\ Day * today <= Now
      BY WindowIs
    <3>3. QED
      BY <3>1, <3>2
  <2> HIDE DEF day, today
  <2>2. ASSUME day < today - DailyWindow
        PROVE  FALSE
    <3>1. missing \in Nat /\ today = day + DailyWindow + 1 + missing
      BY <2>1, <2>2, WindowIs
    <3> HIDE DEF missing
    <3>2. Day * today = Day * day + ShownFor + Day + Day * missing
      BY <2>1, <3>1, WindowIs DEF ShownFor
    <3>3. Day * missing \in Nat /\ Day * day \in Int
      BY <2>1, <3>1, WindowIs
    <3> DEFINE a == Day * today
               b == Day * day
               c == Day * missing
    <3>4. a = b + ShownFor + Day + c /\ c \in Nat /\ b \in Int /\ a <= Now /\ ts < b + Day /\ ts >= Now - ShownFor
      BY <1>2, <2>1, <3>2, <3>3
    <3> HIDE DEF a, b, c
    <3>5. QED
      BY <3>4, WindowIs
  <2>3. QED
    BY <2>1, <2>2, WindowIs DEF day
<1>3. some \in SUBSET window
  <2>1. today \in Int /\ DailyWindow \in Nat
    BY WindowIs
  <2>2. \A row \in shown : row.ts \in Nat /\ row.ts >= Now - ShownFor
    BY DEF Since, Tabled, Said, ShownFor
  <2> HIDE DEF shown, today
  <2>3. QED
    BY <1>1, <1>2, <2>1, <2>2
<1>4. IsFiniteSet(window) /\ Cardinality(window) = DailyWindow + 1
  <2>1. today \in Int /\ DailyWindow \in Nat
    BY WindowIs
  <2> HIDE DEF today
  <2>2. today - DailyWindow \in Int
    BY <2>1
  <2>3. IsFiniteSet(window)
        /\ Cardinality(window) = IF today - DailyWindow > today THEN 0 ELSE today - (today - DailyWindow) + 1
    BY <2>1, <2>2, FS_Interval
  <2>4. QED
    BY <2>1, <2>3
<1>5. QED
  BY <1>3, <1>4, FS_Subset

-----------------------------------------------------------------------------
(* What a command is told of it                                                *)

LEMMA TablesAre ==
  ASSUME NEW tables \in Tables, NEW late \in SUBSET Elsewhere(tables)
  PROVE  LET seen == CountsOf(tables, late).seen
             rows == Public(seen.messages, seen.direct)
         IN /\ Tabled(rows) /\ Threaded(rows)
            /\ In(seen.messages, Here) = In(tables.messages, Here)
            /\ Tabled(In(tables.messages, Here))
            /\ Here \in {row.room : row \in rows} => In(rows, Here) = In(tables.messages, Here)
<1> DEFINE seen == [tables EXCEPT !.messages = @ \ late]
           rows == Public(seen.messages, seen.direct)
<1>1. CountsOf(tables, late).seen = seen
  BY DEF CountsOf
<1>2. tables \in AnyTables
  BY CommandsAssumption
<1>3. tables.messages \in SUBSET Said /\ IsFiniteSet(tables.messages) /\ Threaded(tables.messages)
  BY <1>2 DEF AnyTables
<1>4. seen.messages = tables.messages \ late /\ seen.direct = tables.direct
  BY <1>2 DEF AnyTables
<1> HIDE DEF seen
<1>5. rows \in SUBSET tables.messages /\ In(tables.messages, Here) \in SUBSET tables.messages
  BY <1>4 DEF Public, In
<1>6. Tabled(tables.messages)
  BY <1>3 DEF Tabled
<1>7. Tabled(rows) /\ Tabled(In(tables.messages, Here))
  <2> HIDE DEF rows
  <2>1. QED
    BY <1>5, <1>6, SomeFit
<1>8. Threaded(rows)
  <2> HIDE DEF rows
  <2>1. QED
    BY <1>3, <1>5 DEF Threaded
<1>9. \A row \in late : row.room # Here
  BY DEF Elsewhere
<1>10. In(seen.messages, Here) = In(tables.messages, Here)
  BY <1>4, <1>9 DEF In
<1>11. Here \in {row.room : row \in rows} => In(rows, Here) = In(tables.messages, Here)
  <2>1. ASSUME Here \in {row.room : row \in rows}
        PROVE  In(rows, Here) = In(tables.messages, Here)
    <3>1. Here \notin seen.direct
      BY <2>1 DEF Public
    <3>2. In(rows, Here) = In(seen.messages, Here)
      BY <3>1 DEF In, Public
    <3>3. QED
      BY <1>10, <3>2
  <2>2. QED
    BY <2>1
<1>12. QED
  BY <1>1, <1>7, <1>8, <1>10, <1>11

(* What is counted at one time for all rooms, and a little later for this one, *)
(* agrees.                                                                     *)
Agree(c) ==
  LET all == c.all
      totals == all.totals
  IN /\ SumOf("messages", all.rooms) = totals.messages
     /\ SumOf("replies", all.rooms) = totals.replies
     /\ SumOf("threads", all.rooms) = totals.threads
     /\ SumOf("count", all.intents) = totals.messages
     /\ Len(all.kinds) < TopLimit => SumOf("count", all.kinds) = totals.replies
     /\ totals.people <= TopLimit =>
          /\ Len(all.people) = totals.people
          /\ SumOf("messages", all.people) = totals.messages
     /\ SumOf("messages", all.daily) \in totals.ofWeek..totals.messages
     /\ Cardinality({day \in DOMAIN all.daily : day <= Now \div Day}) <= DailyWindow + 1
     /\ Here \in DOMAIN all.rooms => \A part \in ActivityParts : all.rooms[Here][part] = c.here[part]

LEMMA CountsOfAgree ==
  ASSUME NEW tables \in Tables, NEW late \in SUBSET Elsewhere(tables)
  PROVE  Agree(CountsOf(tables, late))
<1> DEFINE c == CountsOf(tables, late)
           seen == c.seen
           all == c.all
           rows == Public(seen.messages, seen.direct)
           totals == all.totals
           activity == Activity(rows)
<1>1. all = Collect(seen) /\ c.here = RoomStats(tables, Here)
  BY DEF CountsOf
<1>2. /\ Tabled(rows) /\ Threaded(rows)
      /\ Here \in {row.room : row \in rows} => In(rows, Here) = In(tables.messages, Here)
  BY TablesAre
<1> HIDE DEF c
<1>3. /\ all.totals = Totals(seen) /\ all.daily = Daily(rows) /\ all.rooms = RoomsOf(rows)
      /\ all.people = PeopleOf(rows, TopLimit) /\ all.kinds = KindsOf(seen)
      /\ all.intents = Ranked(CountsBy(LAMBDA row : row.intent, rows), Cardinality(rows))
  BY <1>1 DEF Collect
<1> HIDE DEF seen, all
<1>4. /\ \A part \in ActivityParts : totals[part] = activity[part]
      /\ totals["ofWeek"] = Recency(rows)["ofWeek"]
  BY <1>3, TotalsAre
<1>5. /\ activity["messages"] = Cardinality(rows) /\ activity["replies"] = Cardinality(Replied(rows))
      /\ totals["messages"] = activity["messages"] /\ totals["replies"] = activity["replies"]
      /\ totals["threads"] = activity["threads"] /\ totals["people"] = activity["people"]
  BY <1>4, ActivityHas DEF ActivityParts
<1> HIDE DEF rows, totals, activity
<1>6. /\ SumOf("messages", all.rooms) = totals["messages"]
      /\ SumOf("replies", all.rooms) = totals["replies"]
      /\ SumOf("threads", all.rooms) = totals["threads"]
  BY <1>2, <1>3, <1>5, RoomsAddUp DEF activity
<1>7. SumOf("count", all.intents) = totals["messages"]
  BY <1>2, <1>3, <1>5, IntentsAddUp
<1>8. Len(all.kinds) < TopLimit => SumOf("count", all.kinds) = totals["replies"]
  BY <1>2, <1>3, <1>5, KindsAddUp DEF rows
<1>9. totals["people"] <= TopLimit => /\ Len(all.people) = totals["people"]
                                      /\ SumOf("messages", all.people) = totals["messages"]
  <2>1. TopLimit \in Nat
    BY StatsAssumption
  <2>2. QED
    BY <1>2, <1>3, <1>5, <2>1, PeopleAddUp DEF activity
<1>10. SumOf("messages", all.daily) \in totals["ofWeek"]..totals["messages"]
  BY <1>2, <1>3, <1>4, <1>5, DaysAddUp
<1>11. Cardinality({day \in DOMAIN all.daily : day <= Now \div Day}) <= DailyWindow + 1
  BY <1>2, <1>3, DaysAreFew
<1>12. Here \in DOMAIN all.rooms => \A part \in ActivityParts : all.rooms[Here][part] = c.here[part]
  <2>1. ASSUME Here \in DOMAIN all.rooms, NEW part \in ActivityParts
        PROVE  all.rooms[Here][part] = c.here[part]
    <3>1. DOMAIN RoomsOf(rows) = {row.room : row \in rows}
          /\ RoomsOf(rows)[Here][part] = Activity(In(rows, Here))[part]
      BY <1>3, <2>1, RoomsAre
    <3>2. Activity(In(rows, Here))[part] = Activity(In(tables.messages, Here))[part]
      BY <1>2, <1>3, <2>1, <3>1
    <3>3. c.here[part] = Activity(In(tables.messages, Here))[part]
      BY <1>1, RoomStatsAre
    <3>4. QED
      BY <1>3, <3>1, <3>2, <3>3
  <2>2. QED
    BY <2>1
<1>13. QED
  BY <1>6, <1>7, <1>8, <1>9, <1>10, <1>11, <1>12 DEF Agree, c, all, totals

LEMMA ToldSpoke ==
  ASSUME NEW tables \in Tables, NEW late \in SUBSET Elsewhere(tables)
  PROVE  LET c == CountsOf(tables, late)
         IN \A room \in Range(StatsReply(c.all, c.here).here) : \A person \in Range(room.top) :
              \E row \in In(c.seen.messages, Here) : person.name \in {<<"id", row.sender>>, <<"name", row.name>>}
<1> DEFINE c == CountsOf(tables, late)
           rows == In(tables.messages, Here)
<1>1. c.here = RoomStats(tables, Here)
  BY DEF CountsOf
<1>2. Tabled(rows) /\ In(c.seen.messages, Here) = rows
  BY TablesAre
<1>3. Range(StatsReply(c.all, c.here).here) \subseteq {c.here}
  BY DEF StatsReply, Range
<1>4. c.here.top = PeopleOf(rows, RoomTopPeople)
  BY <1>1, RoomStatsAre
<1>5. RoomTopPeople \in Nat
  BY StatsAssumption
<1> HIDE DEF c, rows
<1>6. ASSUME NEW person \in Range(c.here.top)
      PROVE  \E row \in rows : person.name \in {<<"id", row.sender>>, <<"name", row.name>>}
  <2>1. PICK i \in DOMAIN PeopleOf(rows, RoomTopPeople) : person = PeopleOf(rows, RoomTopPeople)[i]
    BY <1>4 DEF Range
  <2>2. QED
    BY <1>2, <1>5, <2>1, TopsSpoke
<1>7. QED
  BY <1>2, <1>3, <1>6 DEF c

-----------------------------------------------------------------------------
(* What is counted is of public rooms, and agrees                             *)

(* A query that leaves private rooms out finds the same where they are not.  *)
LEMMA PublicOfPublic ==
  ASSUME NEW rows, NEW direct
  PROVE  Public(Public(rows, direct), direct) = Public(rows, direct)
BY DEF Public

(* So does each of those that collect asks. *)
LEMMA CollectsPublic ==
  ASSUME NEW tables
  PROVE  Collect(WithoutPrivate(tables)) = Collect(tables)
<1> DEFINE open == WithoutPrivate(tables)
<1>1. /\ open.direct = tables.direct
      /\ Public(open.messages, open.direct) = Public(tables.messages, tables.direct)
      /\ Public(open.reactions, open.direct) = Public(tables.reactions, tables.direct)
      /\ Public(open.facts, open.direct) = Public(tables.facts, tables.direct)
      /\ Public(open.summaries, open.direct) = Public(tables.summaries, tables.direct)
  BY PublicOfPublic DEF WithoutPrivate
<1> HIDE DEF open
<1>2. Totals(open) = Totals(tables)
  BY <1>1 DEF Totals
<1>3. KindsOf(open) = KindsOf(tables)
  BY <1>1 DEF KindsOf
<1>4. Collect(open) = Collect(tables)
  BY <1>1, <1>2, <1>3 DEF Collect
<1> QED
  BY <1>4 DEF open

(* A command keeps what was counted for it. *)
CountedInv ==
  /\ "counted" \in DOMAIN command
  /\ \A c \in command.counted :
       \E tables \in Tables : \E late \in SUBSET Elsewhere(tables) : c = CountsOf(tables, late)

LEMMA NothingCounted == "counted" \in DOMAIN NoCommand /\ NoCommand.counted = {}
<1>1. NoCommand.counted = {}
  BY DEF NoCommand
<1>2. "counted" \in DOMAIN NoCommand
  BY DEF NoCommand
<1> QED
  BY <1>1, <1>2

LEMMA KeepsCounted ==
  ASSUME CountedInv, NEW changes, "counted" \notin DOMAIN changes, Becomes(changes)
  PROVE  CountedInv'
<1>1. "counted" \in DOMAIN command' /\ command'.counted = command.counted
  BY DEF CountedInv, Becomes
<1> QED
  BY <1>1 DEF CountedInv

(* It is counted when the command is given, from what there is to see. *)
LEMMA CountsWhatIsSeen ==
  ASSUME GiveCommand
  PROVE  CountedInv'
<1>1. PICK name \in Spellings \ {""}, text \in Texts :
        \/ command' = [Parsed(name, text) EXCEPT !.phase = "checking"]
        \/ \E answer \in BuiltInReplies(AsciiLower[Parsed(name, text).name]),
              counted \in Counted(Parsed(name, text)) :
             command' = [Parsed(name, text) EXCEPT
                           !.phase = "replying", !.reply = answer, !.counted = counted]
  BY DEF GiveCommand
<1>2. "counted" \in DOMAIN Parsed(name, text) /\ Parsed(name, text).counted = {}
  BY DEF Parsed, NoCommand
<1>3. ASSUME NEW counted, counted \in Counted(Parsed(name, text)), NEW c \in counted
      PROVE  \E tables \in Tables : \E late \in SUBSET Elsewhere(tables) : c = CountsOf(tables, late)
  <2>1. counted \in UNION {{{CountsOf(tables, late)} : late \in SUBSET Elsewhere(tables)} :
                            tables \in Tables}
    BY <1>3 DEF Counted
  <2>2. PICK tables \in Tables :
          counted \in {{CountsOf(tables, late)} : late \in SUBSET Elsewhere(tables)}
    BY <2>1
  <2>3. PICK late \in SUBSET Elsewhere(tables) : counted = {CountsOf(tables, late)}
    BY <2>2
  <2>4. c = CountsOf(tables, late)
    BY <1>3, <2>3
  <2> QED
    BY <2>4
<1> QED
  BY <1>1, <1>2, <1>3 DEF CountedInv

LEMMA CountedInvariant == Spec => []CountedInv
<1>1. Init => CountedInv
  BY NothingCounted DEF Init, CommandsInit, CountedInv
<1>2. ASSUME CountedInv, [Next]_vars
      PROVE  CountedInv'
  <2>1. CASE UNCHANGED command
    BY <2>1, <1>2 DEF CountedInv
  <2>2. CASE GiveCommand
    BY <2>2, CountsWhatIsSeen
  <2>3. CASE CheckCommand
    BY <2>3, <1>2, KeepsCounted DEF CheckCommand
  <2>4. CASE ReadRoom
    <3>1. CASE Becomes([phase |-> "replying", reply |-> "notice"])
      BY <3>1, <1>2, KeepsCounted
    <3>2. CASE \E recent, matches, told :
                 Becomes([phase |-> "looking", recent |-> recent, matches |-> matches, told |-> told])
      BY <3>2, <1>2, KeepsCounted
    <3> QED
      BY <2>4, <3>1, <3>2 DEF ReadRoom
  <2>5. CASE LookUp
    <3>1. PICK film, pictures, told :
            Becomes([phase |-> "completing", film |-> film, pictures |-> pictures, told |-> told])
      BY <2>5 DEF LookUp
    <3> QED
      BY <3>1, <1>2, KeepsCounted
  <2>6. CASE Complete
    BY <2>6, <1>2, KeepsCounted DEF Complete
  <2>7. CASE AnswerCommand
    BY <2>7, NothingCounted DEF AnswerCommand, CountedInv
  <2> QED
    BY <1>2, <2>1, <2>2, <2>3, <2>4, <2>5, <2>6, <2>7
    DEF Next, vars, commandVars, Started, LoadSkills, MessageLogged, ReplyBegins, ReplyGathered,
        ReplyGrounded, ReplyEnds, CommandBegins, CommandGoesOn, CommandEnds
<1>3. QED
  BY <1>1, <1>2, PTL DEF Spec

(* Whatever rooms there are and whatever was said in them, neither the       *)
(* status page nor !stats has a number that a private room's rows change     *)
(* (src/src/stats.rs:3-4).                                                   *)
THEOREM PrivateIsNotCounted == Spec => []PrivateUncounted
<1>1. CountedInv => PrivateUncounted
  <2>1. \A tables, late : CountsOf(tables, late).all = Collect(WithoutPrivate(CountsOf(tables, late).seen))
    BY CollectsPublic DEF CountsOf
  <2>2. QED
    BY <2>1 DEF CountedInv, PrivateUncounted
<1>2. QED
  BY <1>1, CountedInvariant, PTL

(* Whatever was said, when and by whom: the numbers of rooms, days, kinds and  *)
(* people add up to those of all, and what a room is told of itself is what    *)
(* the page says of it                                                         *)
(* (src/src/stats.rs:97-182, 209-243, 246-282, src/src/stats_command.rs:4).    *)
THEOREM CountsAreConsistent == Spec => []CountsAgree
<1>1. ASSUME CountedInv
      PROVE  CountsAgree
  <2>1. ASSUME NEW c \in command.counted
        PROVE  /\ Agree(c)
               /\ \A room \in Range(StatsReply(c.all, c.here).here) : \A person \in Range(room.top) :
                    \E row \in In(c.seen.messages, Here) :
                      person.name \in {<<"id", row.sender>>, <<"name", row.name>>}
    <3>1. PICK tables \in Tables : \E late \in SUBSET Elsewhere(tables) : c = CountsOf(tables, late)
      BY <1>1 DEF CountedInv
    <3>2. PICK late \in SUBSET Elsewhere(tables) : c = CountsOf(tables, late)
      BY <3>1
    <3>3. QED
      BY <3>2, CountsOfAgree, ToldSpoke
  <2>2. QED
    BY <2>1 DEF CountsAgree, Agree, ActivityParts
<1>2. QED
  BY <1>1, CountedInvariant, PTL

-----------------------------------------------------------------------------
(* The skills, in whatever order their files are read                          *)

Maps(keys, values) == UNION {[K -> values] : K \in SUBSET keys}

Registries(files, names, others) ==
  [skills : Maps(names, files), aliases : Maps(others, names), refused : BOOLEAN]

LEMMA TableIs ==
  ASSUME NEW keys, NEW values, NEW t
  PROVE  t \in Maps(keys, values) <=>
           t = [k \in DOMAIN t |-> t[k]] /\ DOMAIN t \subseteq keys /\ \A k \in DOMAIN t : t[k] \in values
<1>1. ASSUME t \in Maps(keys, values)
      PROVE  t = [k \in DOMAIN t |-> t[k]] /\ DOMAIN t \subseteq keys /\ \A k \in DOMAIN t : t[k] \in values
  <2>1. PICK K \in SUBSET keys : t \in [K -> values]
    BY <1>1 DEF Maps
  <2>2. QED
    BY <2>1
<1>2. ASSUME t = [k \in DOMAIN t |-> t[k]], DOMAIN t \subseteq keys, \A k \in DOMAIN t : t[k] \in values
      PROVE  t \in Maps(keys, values)
  <2>1. t \in [DOMAIN t -> values] /\ DOMAIN t \in SUBSET keys
    BY <1>2
  <2>2. QED
    BY <2>1 DEF Maps
<1>3. QED
  BY <1>1, <1>2

LEMMA WithAdds ==
  ASSUME NEW keys, NEW values, NEW t \in Maps(keys, values), NEW k \in keys, NEW v \in values
  PROVE  /\ With(t, k, v) \in Maps(keys, values)
         /\ DOMAIN With(t, k, v) = DOMAIN t \union {k}
         /\ With(t, k, v)[k] = v
         /\ \A l \in DOMAIN t : l # k => With(t, k, v)[l] = t[l]
<1> DEFINE w == With(t, k, v)
<1>1. w = [l \in DOMAIN t \union {k} |-> IF l = k THEN v ELSE t[l]]
  BY DEF With
<1>2. DOMAIN t \subseteq keys /\ \A l \in DOMAIN t : t[l] \in values
  BY TableIs
<1>3. /\ DOMAIN w = DOMAIN t \union {k} /\ w[k] = v
      /\ \A l \in DOMAIN t : l # k => w[l] = t[l]
  BY <1>1
<1>4. w \in [DOMAIN t \union {k} -> values] /\ DOMAIN t \union {k} \in SUBSET keys
  BY <1>1, <1>2
<1>5. w \in Maps(keys, values)
  BY <1>4 DEF Maps
<1>6. QED
  BY <1>3, <1>5

LEMMA NoTable ==
  ASSUME NEW keys, NEW values
  PROVE  <<>> \in Maps(keys, values) /\ DOMAIN <<>> = {}
<1>1. <<>> \in [{} -> values]
  OBVIOUS
<1>2. QED
  BY <1>1 DEF Maps

(* Naming one more file. *)
LEMMA NameAdded ==
  ASSUME NEW files, NEW names, NEW others, NEW r \in Registries(files, names, others),
         NEW file \in files, Lower[file.name] \in names
  PROVE  LET s == AddName(r, file)
             name == Lower[file.name]
         IN /\ s \in Registries(files, names, others) /\ s.aliases = r.aliases
            /\ ~Valid(file) => s = r
            /\ Valid(file) /\ name \in DOMAIN r.skills => s.refused /\ s.skills = r.skills
            /\ Valid(file) /\ name \notin DOMAIN r.skills =>
                 s.refused = r.refused /\ s.skills = With(r.skills, name, file)
<1> DEFINE s == AddName(r, file)
           name == Lower[file.name]
           D == Registries(files, names, others)
<1>1. r.skills \in Maps(names, files) /\ r.aliases \in Maps(others, names) /\ r.refused \in BOOLEAN
  BY DEF Registries
<1>2. With(r.skills, name, file) \in Maps(names, files)
  BY <1>1, WithAdds
<1>3. CASE ~Valid(file)
  BY <1>3 DEF AddName
<1>4. CASE Valid(file) /\ name \in DOMAIN r.skills
  <2>1. s = [r EXCEPT !.refused = TRUE]
    BY <1>4 DEF AddName
  <2>2. s \in D /\ s.aliases = r.aliases /\ s.refused /\ s.skills = r.skills
    BY <2>1 DEF Registries
  <2>3. QED
    BY <1>4, <2>2
<1>5. CASE Valid(file) /\ name \notin DOMAIN r.skills
  <2> DEFINE w == With(r.skills, name, file)
  <2>1. s = [r EXCEPT !.skills = w]
    BY <1>5 DEF AddName
  <2>2. w \in Maps(names, files)
    BY <1>2
  <2> HIDE DEF w
  <2>3. s \in D /\ s.aliases = r.aliases /\ s.refused = r.refused /\ s.skills = w
    BY <2>1, <2>2 DEF Registries
  <2>4. QED
    BY <1>5, <2>3 DEF w
<1>6. QED
  BY <1>3, <1>4, <1>5

NamesOf(files) == {Lower[file.name] : file \in files}

(* The first pass. *)
Naming(h, n, order) ==
  /\ h[0] = Empty /\ h[n] = FoldLeft(AddName, Empty, order)
  /\ \A i \in 1..n : h[i] = AddName(h[i - 1], order[i])

LEMMA NamesFold ==
  ASSUME NEW n \in Nat, NEW files, NEW order \in [1..n -> files], NEW others
  PROVE  \E h \in [0..n -> Registries(files, NamesOf(files), others)] : Naming(h, n, order)
<1> DEFINE base == Empty
           D == Registries(files, NamesOf(files), others)
           step == [p \in (1..n) \X D |-> AddName(p[2], order[p[1]])]
           Folds(g) == g = [T \in SUBSET (1..n) |->
                              IF T = {} THEN base ELSE AddName(g[T \ {Top(T)}], order[Top(T)])]
           iter == CHOOSE g : Folds(g)
<1>1. FoldLeft(AddName, Empty, order) = iter[1..n]
  BY DEF FoldLeft, MapThenFoldSet, Max, Top
<1>2. base \in D
  BY NoTable DEF Empty, Registries
<1>3. ASSUME NEW i \in 1..n, NEW r \in D
      PROVE  AddName(r, order[i]) \in D
  <2>1. order[i] \in files /\ Lower[order[i].name] \in NamesOf(files)
    BY DEF NamesOf
  <2>2. QED
    BY <2>1, NameAdded
<1> HIDE DEF D, base
<1>4. step \in [(1..n) \X D -> D] /\ \A i \in 1..n, r \in D : step[<<i, r>>] = AddName(r, order[i])
  BY <1>3
<1>5. \A T \in SUBSET (1..n) : T # {} => Top(T) \in 1..n
  BY TopIs
<1> HIDE DEF step
<1>6. Folds(iter)
  <2>1. PICK g \in [SUBSET (1..n) -> D] : FoldsUp(g, n, base, step)
    BY <1>2, <1>4, FoldExists
  <2>2. \A T \in SUBSET (1..n) : T # {} => step[<<Top(T), g[T \ {Top(T)}]>>] = AddName(g[T \ {Top(T)}], order[Top(T)])
    BY <1>4, <1>5
  <2>3. \A T \in SUBSET (1..n) : g[T] = IF T = {} THEN base ELSE AddName(g[T \ {Top(T)}], order[Top(T)])
    BY <2>1, <2>2 DEF FoldsUp
  <2>4. Folds(g)
    BY <2>3
  <2>5. QED
    BY <2>4
<1> HIDE DEF iter
<1>7. StepsIn(iter, n, D, base, step)
  BY <1>4, <1>5, <1>6 DEF StepsIn
<1> HIDE DEF Folds
<1>8. PICK h \in [0..n -> D] : Climbs(h, n, base, step) /\ h[n] = iter[1..n]
  <2>1. step \in [(1..n) \X D -> D]
    BY <1>4
  <2>2. RunsTo(n, D, base, step, iter[1..n])
    BY <1>2, <1>7, <2>1, FoldInOrder
  <2>3. QED
    BY <2>2 DEF RunsTo
<1>9. ASSUME NEW i \in 1..n
      PROVE  h[i] = AddName(h[i - 1], order[i])
  <2>1. h[i - 1] \in D
    OBVIOUS
  <2>2. QED
    BY <1>4, <1>8, <2>1 DEF Climbs
<1>10. QED
  BY <1>1, <1>8, <1>9 DEF Climbs, Naming, D, base

(* The files that count, of the first i. *)
Firsts(order, i) == {order[j] : j \in {k \in 1..i : Valid(order[k])}}

LEMMA NextOfFirsts ==
  ASSUME NEW n \in Nat, NEW files, NEW order \in [1..n -> files],
         \A i, j \in 1..n : i # j => order[i] # order[j], NEW i \in 1..n
  PROVE  /\ order[i] \notin Firsts(order, i - 1)
         /\ Firsts(order, i) = IF Valid(order[i]) THEN Firsts(order, i - 1) \union {order[i]}
                               ELSE Firsts(order, i - 1)
         /\ Firsts(order, i) \subseteq files
<1>1. 1..i = (1..(i - 1)) \union {i} /\ \A k \in 1..(i - 1) : k \in 1..n /\ k # i
  OBVIOUS
<1>2. QED
  BY <1>1 DEF Firsts

(* What the first pass made of some files. *)
AllNamed(r, valid) ==
  /\ r.aliases = <<>>
  /\ DOMAIN r.skills = NamesOf(valid)
  /\ \A name \in DOMAIN r.skills : r.skills[name] \in valid /\ Lower[r.skills[name].name] = name
  /\ r.refused <=> \E one, other \in valid : one # other /\ Lower[one.name] = Lower[other.name]

LEMMA OneMoreNamed ==
  ASSUME NEW files, NEW names, NEW others, NEW r \in Registries(files, names, others),
         NEW file \in files, Lower[file.name] \in names, Valid(file),
         NEW valid, AllNamed(r, valid), file \notin valid
  PROVE  AllNamed(AddName(r, file), valid \union {file})
<1> DEFINE s == AddName(r, file)
           name == Lower[file.name]
           all == valid \union {file}
<1>1. /\ s.aliases = <<>>
      /\ name \in DOMAIN r.skills => s.refused /\ s.skills = r.skills
      /\ name \notin DOMAIN r.skills => s.refused = r.refused /\ s.skills = With(r.skills, name, file)
  BY NameAdded DEF AllNamed
<1>2. NamesOf(all) = NamesOf(valid) \union {name}
  BY DEF NamesOf
<1>3. /\ DOMAIN r.skills = NamesOf(valid)
      /\ \A k \in DOMAIN r.skills : r.skills[k] \in valid /\ Lower[r.skills[k].name] = k
      /\ r.refused <=> \E one, other \in valid : one # other /\ Lower[one.name] = Lower[other.name]
  BY DEF AllNamed
<1> HIDE DEF s
<1>4. CASE name \in DOMAIN r.skills
  <2>1. r.skills[name] \in valid /\ Lower[r.skills[name].name] = name /\ r.skills[name] # file
    BY <1>3, <1>4
  <2>2. \E one, other \in all : one # other /\ Lower[one.name] = Lower[other.name]
    BY <2>1
  <2>3. QED
    BY <1>1, <1>2, <1>3, <1>4, <2>2 DEF AllNamed, s
<1>5. CASE name \notin DOMAIN r.skills
  <2>1. /\ DOMAIN With(r.skills, name, file) = DOMAIN r.skills \union {name}
        /\ With(r.skills, name, file)[name] = file
        /\ \A l \in DOMAIN r.skills : l # name => With(r.skills, name, file)[l] = r.skills[l]
    BY DEF With
  <2>2. \A one \in valid : Lower[one.name] # name
    BY <1>3, <1>5 DEF NamesOf
  <2>3. (\E one, other \in all : one # other /\ Lower[one.name] = Lower[other.name])
          <=> \E one, other \in valid : one # other /\ Lower[one.name] = Lower[other.name]
    BY <2>2
  <2>4. s.skills = With(r.skills, name, file) /\ s.refused = r.refused /\ r.refused \in BOOLEAN
    BY <1>1, <1>5 DEF Registries
  <2>5. DOMAIN s.skills = NamesOf(all)
    BY <1>2, <1>3, <2>1, <2>4
  <2>6. \A k \in DOMAIN s.skills : s.skills[k] \in all /\ Lower[s.skills[k].name] = k
    BY <1>3, <1>5, <2>1, <2>4
  <2>7. QED
    BY <1>1, <1>3, <2>3, <2>4, <2>5, <2>6 DEF AllNamed, s
<1>6. QED
  BY <1>4, <1>5

(* An order of some files. *)
Orders(n, files) == {order \in [1..n -> files] : \A i, j \in 1..n : i # j => order[i] # order[j]}

LEMMA FirstPass ==
  ASSUME NEW n \in Nat, NEW files, NEW order \in Orders(n, files), NEW others
  PROVE  LET named == FoldLeft(AddName, Empty, order)
         IN named \in Registries(files, NamesOf(files), others) /\ AllNamed(named, Firsts(order, n))
<1> DEFINE D == Registries(files, NamesOf(files), others)
<1>1. order \in [1..n -> files] /\ \A i, j \in 1..n : i # j => order[i] # order[j]
  BY DEF Orders
<1>2. PICK h \in [0..n -> D] : Naming(h, n, order)
  BY <1>1, NamesFold
<1> DEFINE Good == {i \in 0..n : AllNamed(h[i], Firsts(order, i))}
<1>3. 0 \in Good
  <2>1. Firsts(order, 0) = {} /\ NamesOf({}) = {}
    BY DEF Firsts, NamesOf
  <2>2. DOMAIN <<>> = {}
    BY NoTable
  <2>3. AllNamed(Empty, {})
    BY <2>1, <2>2 DEF AllNamed, Empty
  <2>4. h[0] = Empty
    BY <1>2 DEF Naming
  <2>5. AllNamed(h[0], Firsts(order, 0))
    BY <2>1, <2>3, <2>4
  <2>6. QED
    BY <2>5
<1>4. ASSUME NEW i \in 1..n, i - 1 \in Good
      PROVE  i \in Good
  <2> DEFINE file == order[i]
             r == h[i - 1]
             valid == Firsts(order, i - 1)
  <2>1. /\ file \notin valid
        /\ Firsts(order, i) = IF Valid(file) THEN valid \union {file} ELSE valid
    <3>1. /\ order[i] \notin Firsts(order, i - 1)
          /\ Firsts(order, i) = IF Valid(order[i]) THEN Firsts(order, i - 1) \union {order[i]}
                                ELSE Firsts(order, i - 1)
          /\ Firsts(order, i) \subseteq files
      BY <1>1, NextOfFirsts
    <3>2. QED
      BY <3>1
  <2>2. file \in files /\ Lower[file.name] \in NamesOf(files) /\ r \in D /\ h[i] = AddName(r, file)
        /\ AllNamed(r, valid)
    BY <1>1, <1>2, <1>4 DEF NamesOf, Naming
  <2> HIDE DEF file, r, valid
  <2>3. CASE Valid(file)
    <3>1. AllNamed(AddName(r, file), valid \union {file})
      BY <2>1, <2>2, <2>3, OneMoreNamed
    <3>2. h[i] = AddName(r, file) /\ Firsts(order, i) = valid \union {file}
      BY <2>1, <2>2, <2>3
    <3>3. AllNamed(h[i], Firsts(order, i))
      BY <3>1, <3>2
    <3>4. QED
      BY <3>3
  <2>4. CASE ~Valid(file)
    <3>1. AddName(r, file) = r
      BY <2>4 DEF AddName
    <3>2. QED
      BY <2>1, <2>2, <2>4, <3>1
  <2>5. QED
    BY <2>3, <2>4
<1>5. Good = 0..n
  <2>1. Good \in SUBSET (0..n)
    OBVIOUS
  <2> HIDE DEF Good
  <2>2. QED
    BY <1>3, <1>4, <2>1, OneByOne
<1>6. QED
  BY <1>2, <1>5 DEF Naming


AliasesOf(file) == {Lower[file.aliases[i]] : i \in DOMAIN file.aliases}

LEMMA AliasAdded ==
  ASSUME NEW files, NEW names, NEW others, NEW r \in Registries(files, names, others),
         NEW owner \in names, NEW alias \in others
  PROVE  LET s == AddAlias(r, owner, alias)
             clash == alias \in DOMAIN r.skills \/ (alias \in DOMAIN r.aliases /\ r.aliases[alias] # owner)
         IN /\ s \in Registries(files, names, others) /\ s.skills = r.skills
            /\ clash => s.refused
            /\ ~clash => s.refused = r.refused /\ s.aliases = With(r.aliases, alias, owner)
<1> DEFINE s == AddAlias(r, owner, alias)
           clash == alias \in DOMAIN r.skills \/ (alias \in DOMAIN r.aliases /\ r.aliases[alias] # owner)
           D == Registries(files, names, others)
<1>1. r.skills \in Maps(names, files) /\ r.aliases \in Maps(others, names) /\ r.refused \in BOOLEAN
  BY DEF Registries
<1>2. CASE clash
  <2>1. s = [r EXCEPT !.refused = TRUE]
    BY <1>2 DEF AddAlias
  <2>2. s \in D /\ s.refused /\ s.skills = r.skills
    BY <2>1 DEF Registries
  <2>3. QED
    BY <1>2, <2>2
<1>3. CASE ~clash
  <2> DEFINE w == With(r.aliases, alias, owner)
  <2>1. s = [r EXCEPT !.aliases = w]
    BY <1>3 DEF AddAlias
  <2>2. w \in Maps(others, names)
    BY <1>1, WithAdds
  <2> HIDE DEF w
  <2>3. s \in D /\ s.skills = r.skills /\ s.refused = r.refused /\ s.aliases = w
    BY <2>1, <2>2 DEF Registries
  <2>4. QED
    BY <1>3, <2>3 DEF w
<1>4. QED
  BY <1>2, <1>3

Aliasing(h, n, r, file) ==
  /\ h[0] = r /\ h[n] = AddAliases(r, file)
  /\ \A i \in 1..n : h[i] = AddAlias(h[i - 1], Lower[file.name], Lower[file.aliases[i]])

LEMMA AliasesFold ==
  ASSUME NEW files, NEW names, NEW others, NEW r \in Registries(files, names, others),
         NEW file \in files, Lower[file.name] \in names, AliasesOf(file) \subseteq others,
         NEW n \in Nat, DOMAIN file.aliases = 1..n
  PROVE  \E h \in [0..n -> Registries(files, names, others)] : Aliasing(h, n, r, file)
<1> DEFINE D == Registries(files, names, others)
           More(t, i) == AddAlias(t, Lower[file.name], Lower[file.aliases[i]])
           step == [p \in (1..n) \X D |-> More(p[2], p[1])]
           Folds(g) == g = [T \in SUBSET (1..n) |-> IF T = {} THEN r ELSE More(g[T \ {Top(T)}], Top(T))]
           iter == CHOOSE g : Folds(g)
<1>1. AddAliases(r, file) = iter[1..n]
  BY DEF AddAliases, FoldLeft, MapThenFoldSet, Max, Top
<1>2. r \in D
  OBVIOUS
<1>3. ASSUME NEW i \in 1..n, NEW t \in D
      PROVE  More(t, i) \in D
  <2>1. Lower[file.aliases[i]] \in others
    BY DEF AliasesOf
  <2>2. QED
    BY <2>1, AliasAdded
<1> HIDE DEF D, More
<1>4. step \in [(1..n) \X D -> D] /\ \A i \in 1..n, t \in D : step[<<i, t>>] = More(t, i)
  BY <1>3
<1>5. \A T \in SUBSET (1..n) : T # {} => Top(T) \in 1..n
  BY TopIs
<1> HIDE DEF step
<1>6. Folds(iter)
  <2>1. PICK g \in [SUBSET (1..n) -> D] : FoldsUp(g, n, r, step)
    BY <1>2, <1>4, FoldExists
  <2>2. \A T \in SUBSET (1..n) : T # {} => step[<<Top(T), g[T \ {Top(T)}]>>] = More(g[T \ {Top(T)}], Top(T))
    BY <1>4, <1>5
  <2>3. \A T \in SUBSET (1..n) : g[T] = IF T = {} THEN r ELSE More(g[T \ {Top(T)}], Top(T))
    BY <2>1, <2>2 DEF FoldsUp
  <2>4. Folds(g)
    BY <2>3
  <2>5. QED
    BY <2>4
<1> HIDE DEF iter
<1>7. StepsIn(iter, n, D, r, step)
  BY <1>4, <1>5, <1>6 DEF StepsIn
<1> HIDE DEF Folds
<1>8. PICK h \in [0..n -> D] : Climbs(h, n, r, step) /\ h[n] = iter[1..n]
  <2>1. step \in [(1..n) \X D -> D]
    BY <1>4
  <2>2. RunsTo(n, D, r, step, iter[1..n])
    BY <1>2, <1>7, <2>1, FoldInOrder
  <2>3. QED
    BY <2>2 DEF RunsTo
<1>9. ASSUME NEW i \in 1..n
      PROVE  h[i] = More(h[i - 1], i)
  <2>1. h[i - 1] \in D
    OBVIOUS
  <2>2. QED
    BY <1>4, <1>8, <2>1 DEF Climbs
<1>10. QED
  BY <1>1, <1>8, <1>9 DEF Climbs, Aliasing, D, More

(* What became of a registry when the aliases of a file were added to it.      *)
Gains(r, s, owner, gained) ==
  /\ s.skills = r.skills
  /\ s.refused <=>
       r.refused \/ \E a \in gained : a \in DOMAIN r.skills \/ (a \in DOMAIN r.aliases /\ r.aliases[a] # owner)
  /\ s.refused \/
       /\ DOMAIN s.aliases = DOMAIN r.aliases \union gained
       /\ \A a \in gained : s.aliases[a] = owner
       /\ \A a \in DOMAIN r.aliases \ gained : s.aliases[a] = r.aliases[a]

LEMMA OneMoreGained ==
  ASSUME NEW files, NEW names, NEW others, NEW r \in Registries(files, names, others),
         NEW t \in Registries(files, names, others), NEW owner \in names, NEW alias \in others,
         NEW gained, Gains(r, t, owner, gained)
  PROVE  Gains(r, AddAlias(t, owner, alias), owner, gained \union {alias})
<1> DEFINE s == AddAlias(t, owner, alias)
           more == gained \union {alias}
           clash == alias \in DOMAIN t.skills \/ (alias \in DOMAIN t.aliases /\ t.aliases[alias] # owner)
           Clashes(a) == a \in DOMAIN r.skills \/ (a \in DOMAIN r.aliases /\ r.aliases[a] # owner)
<1>1. /\ s.skills = t.skills
      /\ clash => s.refused
      /\ ~clash => s.refused = t.refused /\ s.aliases = With(t.aliases, alias, owner)
  BY AliasAdded
<1>2. /\ t.skills = r.skills
      /\ t.refused <=> r.refused \/ \E a \in gained : Clashes(a)
      /\ t.refused \/
           /\ DOMAIN t.aliases = DOMAIN r.aliases \union gained
           /\ \A a \in gained : t.aliases[a] = owner
           /\ \A a \in DOMAIN r.aliases \ gained : t.aliases[a] = r.aliases[a]
  BY DEF Gains
<1>3. t.refused \in BOOLEAN /\ r.refused \in BOOLEAN
  BY DEF Registries
<1>4. /\ DOMAIN With(t.aliases, alias, owner) = DOMAIN t.aliases \union {alias}
      /\ With(t.aliases, alias, owner)[alias] = owner
      /\ \A l \in DOMAIN t.aliases : l # alias => With(t.aliases, alias, owner)[l] = t.aliases[l]
  BY DEF With
<1> HIDE DEF s
<1>5. ~t.refused => (clash <=> Clashes(alias))
  BY <1>2
<1>6. s.refused <=> r.refused \/ \E a \in more : Clashes(a)
  <2>1. CASE t.refused
    <3>1. s.refused
      BY <1>1, <2>1
    <3>2. QED
      BY <1>2, <2>1, <3>1
  <2>2. CASE ~t.refused
    <3>1. ~r.refused /\ ~(\E a \in gained : Clashes(a))
      BY <1>2, <2>2
    <3>2. clash <=> \E a \in more : Clashes(a)
      BY <1>5, <2>2, <3>1
    <3>3. s.refused <=> clash
      BY <1>1, <2>2
    <3>4. QED
      BY <3>1, <3>2, <3>3
  <2>3. QED
    BY <2>1, <2>2
<1>7. ASSUME ~s.refused
      PROVE  /\ DOMAIN s.aliases = DOMAIN r.aliases \union more
             /\ \A a \in more : s.aliases[a] = owner
             /\ \A a \in DOMAIN r.aliases \ more : s.aliases[a] = r.aliases[a]
  <2>1. ~clash /\ ~t.refused /\ s.aliases = With(t.aliases, alias, owner)
    BY <1>1, <1>7
  <2>2. /\ DOMAIN t.aliases = DOMAIN r.aliases \union gained
        /\ \A a \in gained : t.aliases[a] = owner
        /\ \A a \in DOMAIN r.aliases \ gained : t.aliases[a] = r.aliases[a]
    BY <1>2, <2>1
  <2>3. QED
    BY <1>4, <2>1, <2>2
<1>8. QED
  <2>1. s.skills = r.skills
    BY <1>1, <1>2
  <2>2. QED
    BY <1>6, <1>7, <2>1 DEF Gains, s

LEMMA AliasesGained ==
  ASSUME NEW files, NEW names, NEW others, NEW r \in Registries(files, names, others),
         NEW file \in files, Lower[file.name] \in names, AliasesOf(file) \subseteq others,
         NEW n \in Nat, DOMAIN file.aliases = 1..n
  PROVE  /\ AddAliases(r, file) \in Registries(files, names, others)
         /\ Gains(r, AddAliases(r, file), Lower[file.name], AliasesOf(file))
<1> DEFINE D == Registries(files, names, others)
           owner == Lower[file.name]
           Gained(k) == {Lower[file.aliases[i]] : i \in 1..k}
<1>1. PICK h \in [0..n -> D] : Aliasing(h, n, r, file)
  BY AliasesFold
<1>2. h[0] = r /\ h[n] = AddAliases(r, file)
  BY <1>1 DEF Aliasing
<1>3. \A i \in 1..n : h[i] = AddAlias(h[i - 1], owner, Lower[file.aliases[i]])
  BY <1>1 DEF Aliasing
<1> DEFINE Good == {k \in 0..n : Gains(r, h[k], owner, Gained(k))}
<1>4. 0 \in Good
  <2>1. Gained(0) = {}
    OBVIOUS
  <2>2. Gains(r, r, owner, {})
    BY DEF Gains
  <2>3. Gains(r, h[0], owner, Gained(0))
    BY <1>2, <2>1, <2>2
  <2>4. QED
    BY <2>3
<1>5. ASSUME NEW i \in 1..n, i - 1 \in Good
      PROVE  i \in Good
  <2> DEFINE t == h[i - 1]
             alias == Lower[file.aliases[i]]
             gained == Gained(i - 1)
  <2>1. t \in D /\ alias \in others /\ Gains(r, t, owner, gained) /\ owner \in names
    BY <1>5 DEF AliasesOf
  <2>2. h[i] = AddAlias(t, owner, alias)
    BY <1>3
  <2>3. Gained(i) = gained \union {alias}
    <3>1. 1..i = (1..(i - 1)) \union {i}
      OBVIOUS
    <3>2. QED
      BY <3>1
  <2> HIDE DEF t, alias, gained, owner
  <2>4. Gains(r, AddAlias(t, owner, alias), owner, gained \union {alias})
    BY <2>1, OneMoreGained
  <2> HIDE DEF Gained
  <2>5. Gains(r, h[i], owner, Gained(i))
    BY <2>2, <2>3, <2>4
  <2>6. QED
    BY <2>5
<1>6. Good = 0..n
  <2>1. Good \in SUBSET (0..n)
    OBVIOUS
  <2> HIDE DEF Good
  <2>2. QED
    BY <1>4, <1>5, <2>1, OneByOne
<1>7. Gained(n) = AliasesOf(file)
  BY DEF AliasesOf
<1>8. h[n] \in D /\ n \in Good
  <2>1. n \in 0..n
    OBVIOUS
  <2> HIDE DEF Good, D
  <2>2. QED
    BY <1>6, <2>1
<1>9. Gains(r, h[n], owner, Gained(n))
  BY <1>8
<1> HIDE DEF D, owner, Gained
<1>10. AddAliases(r, file) \in D /\ Gains(r, AddAliases(r, file), owner, AliasesOf(file))
  BY <1>2, <1>7, <1>8, <1>9
<1>11. QED
  BY <1>10 DEF D, owner

(* What the second pass made of some files, if the first did not refuse. *)
AllAliased(named, r, valid) ==
  /\ r.skills = named.skills
  /\ r.refused <=>
       \E one \in valid :
         \/ \E a \in AliasesOf(one) : a \in DOMAIN named.skills
         \/ \E other \in valid : one # other /\ AliasesOf(one) \intersect AliasesOf(other) # {}
  /\ r.refused \/
       /\ DOMAIN r.aliases = UNION {AliasesOf(file) : file \in valid}
       /\ \A a \in DOMAIN r.aliases : \E file \in valid : a \in AliasesOf(file) /\ r.aliases[a] = Lower[file.name]

LEMMA OneMoreAliased ==
  ASSUME NEW named, NEW r, NEW s, NEW valid, NEW file, AllAliased(named, r, valid), file \notin valid,
         r.refused \in BOOLEAN,
         Gains(r, s, Lower[file.name], AliasesOf(file)),
         \A one \in valid : Lower[one.name] # Lower[file.name]
  PROVE  AllAliased(named, s, valid \union {file})
<1> DEFINE all == valid \union {file}
           gained == AliasesOf(file)
           owner == Lower[file.name]
           Clashes(a) == a \in DOMAIN r.skills \/ (a \in DOMAIN r.aliases /\ r.aliases[a] # owner)
           Taken(one) == \E a \in AliasesOf(one) : a \in DOMAIN named.skills
           Share(one, other) == one # other /\ AliasesOf(one) \intersect AliasesOf(other) # {}
<1>1. /\ s.skills = r.skills
      /\ s.refused <=> r.refused \/ \E a \in gained : Clashes(a)
      /\ s.refused \/
           /\ DOMAIN s.aliases = DOMAIN r.aliases \union gained
           /\ \A a \in gained : s.aliases[a] = owner
           /\ \A a \in DOMAIN r.aliases \ gained : s.aliases[a] = r.aliases[a]
  BY DEF Gains
<1>2. /\ r.skills = named.skills
      /\ r.refused <=> \E one \in valid : Taken(one) \/ \E other \in valid : Share(one, other)
      /\ r.refused \/
           /\ DOMAIN r.aliases = UNION {AliasesOf(f) : f \in valid}
           /\ \A a \in DOMAIN r.aliases : \E f \in valid : a \in AliasesOf(f) /\ r.aliases[a] = Lower[f.name]
  BY DEF AllAliased
<1>3. ASSUME ~r.refused
      PROVE  (\E a \in gained : Clashes(a)) <=> Taken(file) \/ \E other \in valid : Share(file, other)
  <2>1. ASSUME NEW a \in gained
        PROVE  a \in DOMAIN r.aliases /\ r.aliases[a] # owner <=> \E f \in valid : a \in AliasesOf(f)
    <3>1. a \in DOMAIN r.aliases <=> \E f \in valid : a \in AliasesOf(f)
      BY <1>2, <1>3
    <3>2. a \in DOMAIN r.aliases => r.aliases[a] # owner
      BY <1>2, <1>3
    <3>3. QED
      BY <3>1, <3>2
  <2>2. ASSUME NEW a \in gained
        PROVE  Clashes(a) <=> a \in DOMAIN named.skills \/ \E f \in valid : a \in AliasesOf(f)
    BY <1>2, <2>1
  <2>3. (\E f \in valid : Share(file, f)) <=> \E a \in gained : \E f \in valid : a \in AliasesOf(f)
    OBVIOUS
  <2> HIDE DEF Clashes, Share, gained
  <2>4. Taken(file) <=> \E a \in gained : a \in DOMAIN named.skills
    BY DEF gained
  <2> HIDE DEF Taken
  <2>5. QED
    BY <2>2, <2>3, <2>4
<1>4. s.refused <=> \E one \in all : Taken(one) \/ \E other \in all : Share(one, other)
  <2>1. \A one, other : Share(one, other) => Share(other, one)
    OBVIOUS
  <2>2. \A one : ~Share(one, one)
    OBVIOUS
  <2> HIDE DEF Clashes, Share, Taken
  <2>3. (\E one \in all : Taken(one) \/ \E other \in all : Share(one, other)) <=>
          \/ \E one \in valid : Taken(one) \/ \E other \in valid : Share(one, other)
          \/ Taken(file) \/ \E other \in valid : Share(file, other)
    BY <2>1, <2>2
  <2> HIDE DEF all, gained
  <2>4. QED
    BY <1>1, <1>2, <1>3, <2>3
<1>5. ASSUME ~s.refused
      PROVE  /\ DOMAIN s.aliases = UNION {AliasesOf(f) : f \in all}
             /\ \A a \in DOMAIN s.aliases : \E f \in all : a \in AliasesOf(f) /\ s.aliases[a] = Lower[f.name]
  <2>1. ~r.refused
    BY <1>1, <1>5
  <2>2. /\ DOMAIN s.aliases = DOMAIN r.aliases \union gained
        /\ \A a \in gained : s.aliases[a] = owner
        /\ \A a \in DOMAIN r.aliases \ gained : s.aliases[a] = r.aliases[a]
    BY <1>1, <1>5
  <2>3. /\ DOMAIN r.aliases = UNION {AliasesOf(f) : f \in valid}
        /\ \A a \in DOMAIN r.aliases : \E f \in valid : a \in AliasesOf(f) /\ r.aliases[a] = Lower[f.name]
    BY <1>2, <2>1
  <2>4. DOMAIN s.aliases = UNION {AliasesOf(f) : f \in all}
    BY <2>2, <2>3
  <2>5. ASSUME NEW a \in DOMAIN s.aliases
        PROVE  \E f \in all : a \in AliasesOf(f) /\ s.aliases[a] = Lower[f.name]
    <3>1. CASE a \in gained
      BY <2>2, <3>1
    <3>2. CASE a \notin gained
      BY <2>2, <2>3, <3>2
    <3>3. QED
      BY <3>1, <3>2
  <2>6. QED
    BY <2>4, <2>5
<1>6. s.skills = named.skills
  BY <1>1, <1>2
<1>7. QED
  BY <1>4, <1>5, <1>6 DEF AllAliased

(* Files whose aliases are in a sequence. *)
Listed(files) == \A file \in files : \E k \in Nat : DOMAIN file.aliases = 1..k

OthersOf(files) == UNION {AliasesOf(file) : file \in files}

AddIfValid(r, file) == IF Valid(file) THEN AddAliases(r, file) ELSE r

Following(h, n, order, named) ==
  /\ h[0] = named
  /\ h[n] = FoldLeft(LAMBDA r, file : IF Valid(file) THEN AddAliases(r, file) ELSE r, named, order)
  /\ \A i \in 1..n : h[i] = AddIfValid(h[i - 1], order[i])

LEMMA SecondFold ==
  ASSUME NEW n \in Nat, NEW files, NEW order \in [1..n -> files], Listed(files),
         NEW named \in Registries(files, NamesOf(files), OthersOf(files))
  PROVE  \E h \in [0..n -> Registries(files, NamesOf(files), OthersOf(files))] : Following(h, n, order, named)
<1> DEFINE D == Registries(files, NamesOf(files), OthersOf(files))
           More(r, i) == IF Valid(order[i]) THEN AddAliases(r, order[i]) ELSE r
           step == [p \in (1..n) \X D |-> More(p[2], p[1])]
           Folds(g) == g = [T \in SUBSET (1..n) |-> IF T = {} THEN named ELSE More(g[T \ {Top(T)}], Top(T))]
           iter == CHOOSE g : Folds(g)
<1>1. FoldLeft(LAMBDA r, file : IF Valid(file) THEN AddAliases(r, file) ELSE r, named, order) = iter[1..n]
  BY DEF FoldLeft, MapThenFoldSet, Max, Top
<1>2. named \in D
  OBVIOUS
<1>3. ASSUME NEW i \in 1..n, NEW r \in D
      PROVE  More(r, i) \in D
  <2>1. /\ order[i] \in files /\ Lower[order[i].name] \in NamesOf(files)
        /\ AliasesOf(order[i]) \subseteq OthersOf(files)
    BY DEF NamesOf, OthersOf
  <2>2. PICK k \in Nat : DOMAIN order[i].aliases = 1..k
    BY <2>1 DEF Listed
  <2>3. AddAliases(r, order[i]) \in D
    BY <2>1, <2>2, AliasesGained
  <2>4. QED
    BY <2>3
<1> HIDE DEF D, More
<1>4. step \in [(1..n) \X D -> D] /\ \A i \in 1..n, r \in D : step[<<i, r>>] = More(r, i)
  BY <1>3
<1>5. \A T \in SUBSET (1..n) : T # {} => Top(T) \in 1..n
  BY TopIs
<1> HIDE DEF step
<1>6. Folds(iter)
  <2>1. PICK g \in [SUBSET (1..n) -> D] : FoldsUp(g, n, named, step)
    BY <1>2, <1>4, FoldExists
  <2>2. \A T \in SUBSET (1..n) : T # {} => step[<<Top(T), g[T \ {Top(T)}]>>] = More(g[T \ {Top(T)}], Top(T))
    BY <1>4, <1>5
  <2>3. \A T \in SUBSET (1..n) : g[T] = IF T = {} THEN named ELSE More(g[T \ {Top(T)}], Top(T))
    BY <2>1, <2>2 DEF FoldsUp
  <2>4. Folds(g)
    BY <2>3
  <2>5. QED
    BY <2>4
<1> HIDE DEF iter
<1>7. StepsIn(iter, n, D, named, step)
  BY <1>4, <1>5, <1>6 DEF StepsIn
<1> HIDE DEF Folds
<1>8. PICK h \in [0..n -> D] : Climbs(h, n, named, step) /\ h[n] = iter[1..n]
  <2>1. step \in [(1..n) \X D -> D]
    BY <1>4
  <2>2. RunsTo(n, D, named, step, iter[1..n])
    BY <1>2, <1>7, <2>1, FoldInOrder
  <2>3. QED
    BY <2>2 DEF RunsTo
<1>9. ASSUME NEW i \in 1..n
      PROVE  h[i] = More(h[i - 1], i)
  <2>1. h[i - 1] \in D
    OBVIOUS
  <2>2. QED
    BY <1>4, <1>8, <2>1 DEF Climbs
<1>10. h[0] = named /\ h[n] = iter[1..n]
  BY <1>8 DEF Climbs
<1>11. Following(h, n, order, named)
  BY <1>1, <1>9, <1>10 DEF Following, AddIfValid, More
<1>12. QED
  BY <1>11 DEF D

LEMMA SecondPass ==
  ASSUME NEW n \in Nat, NEW files, NEW order \in Orders(n, files), Listed(files),
         NEW named \in Registries(files, NamesOf(files), OthersOf(files)), AllNamed(named, Firsts(order, n)),
         ~named.refused
  PROVE  LET r == FoldLeft(LAMBDA r, file : IF Valid(file) THEN AddAliases(r, file) ELSE r, named, order)
         IN /\ r \in Registries(files, NamesOf(files), OthersOf(files))
            /\ AllAliased(named, r, Firsts(order, n))
<1> DEFINE D == Registries(files, NamesOf(files), OthersOf(files))
<1>1. order \in [1..n -> files] /\ \A i, j \in 1..n : i # j => order[i] # order[j]
  BY DEF Orders
<1>2. PICK h \in [0..n -> D] : Following(h, n, order, named)
  BY <1>1, SecondFold
<1> DEFINE Good == {i \in 0..n : AllAliased(named, h[i], Firsts(order, i))}
<1>3. 0 \in Good
  <2>1. Firsts(order, 0) = {}
    BY DEF Firsts
  <2>2. DOMAIN named.aliases = {}
    BY NoTable DEF AllNamed
  <2>3. AllAliased(named, named, {})
    BY <2>2 DEF AllAliased
  <2>4. h[0] = named
    BY <1>2 DEF Following
  <2>5. AllAliased(named, h[0], Firsts(order, 0))
    BY <2>1, <2>3, <2>4
  <2>6. QED
    BY <2>5
<1>4. ASSUME NEW i \in 1..n, i - 1 \in Good
      PROVE  i \in Good
  <2> DEFINE file == order[i]
             r == h[i - 1]
             valid == Firsts(order, i - 1)
  <2>1. /\ file \notin valid
        /\ Firsts(order, i) = IF Valid(file) THEN valid \union {file} ELSE valid
    <3>1. /\ order[i] \notin Firsts(order, i - 1)
          /\ Firsts(order, i) = IF Valid(order[i]) THEN Firsts(order, i - 1) \union {order[i]}
                                ELSE Firsts(order, i - 1)
          /\ Firsts(order, i) \subseteq files
      BY <1>1, NextOfFirsts
    <3>2. QED
      BY <3>1
  <2>2. file \in files /\ r \in D /\ AllAliased(named, r, valid)
    BY <1>1, <1>4
  <2>3. h[i] = IF Valid(file) THEN AddAliases(r, file) ELSE r
    BY <1>2 DEF Following, AddIfValid
  <2>4. Valid(file) => \A one \in valid : Lower[one.name] # Lower[file.name]
    <3>1. valid \subseteq Firsts(order, n)
      BY DEF Firsts
    <3>2. Valid(file) => file \in Firsts(order, n)
      BY DEF Firsts
    <3> HIDE DEF valid, file
    <3>3. QED
      BY <2>1, <3>1, <3>2 DEF AllNamed
  <2>5. Lower[file.name] \in NamesOf(files) /\ AliasesOf(file) \subseteq OthersOf(files)
    BY <2>2 DEF NamesOf, OthersOf
  <2>6. PICK k \in Nat : DOMAIN file.aliases = 1..k
    BY <2>2 DEF Listed
  <2> HIDE DEF file, r, valid
  <2>7. CASE Valid(file)
    <3>1. Gains(r, AddAliases(r, file), Lower[file.name], AliasesOf(file))
      BY <2>2, <2>5, <2>6, AliasesGained
    <3>2. r.refused \in BOOLEAN
      BY <2>2 DEF Registries
    <3>3. AllAliased(named, AddAliases(r, file), valid \union {file})
      BY <2>1, <2>2, <2>4, <2>7, <3>1, <3>2, OneMoreAliased
    <3>4. h[i] = AddAliases(r, file) /\ Firsts(order, i) = valid \union {file}
      BY <2>1, <2>3, <2>7
    <3>5. AllAliased(named, h[i], Firsts(order, i))
      BY <3>3, <3>4
    <3>6. QED
      BY <3>5
  <2>8. CASE ~Valid(file)
    <3>1. h[i] = r /\ Firsts(order, i) = valid
      BY <2>1, <2>3, <2>8
    <3>2. AllAliased(named, h[i], Firsts(order, i))
      BY <2>2, <3>1
    <3>3. QED
      BY <3>2
  <2>9. QED
    BY <2>7, <2>8
<1>5. Good = 0..n
  <2>1. Good \in SUBSET (0..n)
    OBVIOUS
  <2> HIDE DEF Good
  <2>2. QED
    BY <1>3, <1>4, <2>1, OneByOne
<1>6. n \in 0..n
  OBVIOUS
<1>7. AllAliased(named, h[n], Firsts(order, n)) /\ h[n] \in D
  <2>1. h[n] \in D
    BY <1>6
  <2>2. n \in Good
    BY <1>5, <1>6
  <2>3. QED
    BY <2>1, <2>2
<1>8. QED
  BY <1>2, <1>7 DEF Following

ClaimsOf(file) == {Lower[file.name]} \union AliasesOf(file)

(* Two files claim the same, or one has its own name for an alias. *)
Collide(valid) ==
  \/ \E one, other \in valid : one # other /\ ClaimsOf(one) \intersect ClaimsOf(other) # {}
  \/ \E file \in valid : Lower[file.name] \in AliasesOf(file)

(* Each name and each alias leads to the one file that has it, and no others   *)
(* lead anywhere.                                                              *)
Leads(r, valid) ==
  /\ \A file \in valid : \A name \in ClaimsOf(file) :
       /\ name \in DOMAIN r.skills \union DOMAIN r.aliases
       /\ (IF name \in DOMAIN r.skills THEN r.skills[name] ELSE r.skills[r.aliases[name]]) = file
  /\ \A name \in DOMAIN r.skills \union DOMAIN r.aliases : \E file \in valid : name \in ClaimsOf(file)

LEMMA PassesCollide ==
  ASSUME NEW named, NEW r, NEW valid,
         AllNamed(named, valid), ~named.refused, AllAliased(named, r, valid)
  PROVE  (r.refused <=> Collide(valid)) /\ (r.refused \/ Leads(r, valid))
<1>1. \A one, other \in valid : one # other => Lower[one.name] # Lower[other.name]
  BY DEF AllNamed
<1>2. /\ DOMAIN named.skills = NamesOf(valid)
      /\ \A name \in DOMAIN named.skills :
           named.skills[name] \in valid /\ Lower[named.skills[name].name] = name
  BY DEF AllNamed
<1>3. \A file \in valid : Lower[file.name] \in DOMAIN named.skills
  BY <1>2 DEF NamesOf
<1>4. ASSUME NEW one \in valid, NEW a \in AliasesOf(one), a \in DOMAIN named.skills
      PROVE  Collide(valid)
  <2>1. PICK other \in valid : a = Lower[other.name]
    BY <1>2, <1>4 DEF NamesOf
  <2>2. a \in ClaimsOf(one) /\ a \in ClaimsOf(other)
    BY <2>1 DEF ClaimsOf
  <2>3. CASE one = other
    BY <2>1, <2>3 DEF Collide
  <2>4. CASE one # other
    BY <2>2, <2>4 DEF Collide
  <2>5. QED
    BY <2>3, <2>4
<1>5. ASSUME NEW one \in valid, NEW other \in valid, one # other,
             AliasesOf(one) \intersect AliasesOf(other) # {}
      PROVE  Collide(valid)
  BY <1>5 DEF Collide, ClaimsOf
<1>6. r.refused => Collide(valid)
  BY <1>4, <1>5 DEF AllAliased
<1>7. ASSUME NEW one \in valid, NEW other \in valid, one # other,
             NEW x \in ClaimsOf(one) \intersect ClaimsOf(other)
      PROVE  r.refused
  <2>2. CASE x = Lower[one.name]
    <3>1. x \in AliasesOf(other)
      BY <1>1, <1>7, <2>2 DEF ClaimsOf
    <3>2. QED
      BY <1>3, <2>2, <3>1 DEF AllAliased
  <2>3. CASE x = Lower[other.name]
    <3>1. x \in AliasesOf(one)
      BY <1>1, <1>7, <2>3 DEF ClaimsOf
    <3>2. QED
      BY <1>3, <2>3, <3>1 DEF AllAliased
  <2>4. CASE x \in AliasesOf(one) /\ x \in AliasesOf(other)
    BY <1>7, <2>4 DEF AllAliased
  <2>5. QED
    BY <1>7, <2>2, <2>3, <2>4 DEF ClaimsOf
<1>8. Collide(valid) => r.refused
  <2>1. ASSUME NEW file \in valid, Lower[file.name] \in AliasesOf(file)
        PROVE  r.refused
    BY <1>3, <2>1 DEF AllAliased
  <2>2. QED
    BY <1>7, <2>1 DEF Collide
<1>9. ASSUME ~r.refused, NEW file \in valid, NEW name \in ClaimsOf(file)
      PROVE  /\ name \in DOMAIN r.skills \union DOMAIN r.aliases
             /\ (IF name \in DOMAIN r.skills THEN r.skills[name] ELSE r.skills[r.aliases[name]]) = file
  <2>1. /\ r.skills = named.skills
        /\ DOMAIN r.aliases = UNION {AliasesOf(f) : f \in valid}
        /\ \A a \in DOMAIN r.aliases : \E f \in valid : a \in AliasesOf(f) /\ r.aliases[a] = Lower[f.name]
        /\ \A one \in valid : \A a \in AliasesOf(one) : a \notin DOMAIN named.skills
        /\ \A one, other \in valid : one # other => AliasesOf(one) \intersect AliasesOf(other) = {}
    BY <1>9 DEF AllAliased
  <2>2. \A f \in valid : Lower[f.name] \in DOMAIN named.skills /\ named.skills[Lower[f.name]] = f
    <3>1. TAKE f \in valid
    <3>2. Lower[f.name] \in DOMAIN named.skills
      BY <1>2 DEF NamesOf
    <3>3. QED
      BY <1>1, <1>2, <3>2
  <2>3. CASE name = Lower[file.name]
    BY <2>1, <2>2, <2>3
  <2>4. CASE name \in AliasesOf(file)
    <3>1. name \in DOMAIN r.aliases /\ name \notin DOMAIN r.skills
      BY <2>1, <2>4
    <3>2. PICK f \in valid : name \in AliasesOf(f) /\ r.aliases[name] = Lower[f.name]
      BY <2>1, <3>1
    <3>3. f = file
      BY <2>1, <2>4, <3>2
    <3>4. QED
      BY <2>1, <2>2, <3>1, <3>2, <3>3
  <2>5. QED
    BY <1>9, <2>3, <2>4 DEF ClaimsOf
<1>10. r.refused \/ Leads(r, valid)
  <2>1. ASSUME ~r.refused, NEW name \in DOMAIN r.skills \union DOMAIN r.aliases
        PROVE  \E file \in valid : name \in ClaimsOf(file)
    <3>1. r.skills = named.skills
          /\ \A a \in DOMAIN r.aliases : \E file \in valid : a \in AliasesOf(file)
      BY <2>1 DEF AllAliased
    <3>2. \A k \in DOMAIN named.skills : \E file \in valid : Lower[file.name] = k
      BY <1>2
    <3>3. QED
      BY <2>1, <3>1, <3>2 DEF ClaimsOf
  <2>2. QED
    BY <1>9, <2>1 DEF Leads
<1>11. QED
  BY <1>6, <1>8, <1>10

LEMMA LoadIsRight ==
  ASSUME NEW n \in Nat, NEW files, NEW order \in Orders(n, files), Listed(files),
         \A file \in files : \E i \in 1..n : order[i] = file
  PROVE  LET r == Load(order)
             valid == {file \in files : Valid(file)}
         IN /\ r \in Registries(files, NamesOf(files), OthersOf(files))
            /\ r.refused <=> Collide(valid)
            /\ r.refused \/ Leads(r, valid)
            /\ DOMAIN r.skills = NamesOf(valid)
            /\ \A name \in DOMAIN r.skills : r.skills[name] \in valid
            /\ r.refused \/ \A a \in DOMAIN r.aliases : r.aliases[a] \in DOMAIN r.skills
<1> DEFINE named == FoldLeft(AddName, Empty, order)
           second == FoldLeft(LAMBDA r, file : IF Valid(file) THEN AddAliases(r, file) ELSE r, named, order)
           valid == {file \in files : Valid(file)}
           D == Registries(files, NamesOf(files), OthersOf(files))
<1>1. Load(order) = IF named.refused THEN named ELSE second
  BY DEF Load
<1>2. Firsts(order, n) = valid
  <2>1. order \in [1..n -> files]
    BY DEF Orders
  <2>2. QED
    BY <2>1 DEF Firsts
<1>3. named \in D /\ AllNamed(named, valid)
  BY <1>2, FirstPass
<1> HIDE DEF named, D
<1>4. /\ DOMAIN named.skills = NamesOf(valid)
      /\ \A name \in DOMAIN named.skills : named.skills[name] \in valid
  BY <1>3 DEF AllNamed
<1>5. CASE named.refused
  <2>1. Collide(valid)
    BY <1>3, <1>5 DEF AllNamed, Collide, ClaimsOf
  <2>2. QED
    BY <1>1, <1>3, <1>4, <1>5, <2>1 DEF D
<1>6. CASE ~named.refused
  <2>1. second \in D /\ AllAliased(named, second, valid)
    BY <1>2, <1>3, <1>6, SecondPass DEF D
  <2> HIDE DEF second
  <2> HIDE DEF valid
  <2>3. (second.refused <=> Collide(valid)) /\ (second.refused \/ Leads(second, valid))
    BY <1>3, <1>6, <2>1, PassesCollide
  <2>4. /\ second.skills = named.skills
        /\ second.refused \/ \A a \in DOMAIN second.aliases : second.aliases[a] \in NamesOf(valid)
    BY <2>1 DEF AllAliased, NamesOf
  <2>5. Load(order) = second
    BY <1>1, <1>6
  <2>6. QED
    BY <1>4, <2>1, <2>3, <2>4, <2>5 DEF valid, D
<1>7. QED
  BY <1>5, <1>6

(* What loading gives: see RightSkill. *)
LoadedFrom(r, files) ==
  LET valid == {file \in files : Valid(file)}
  IN /\ r.refused \in BOOLEAN
     /\ r.refused <=> Collide(valid)
     /\ r.refused \/ Leads(r, valid)
     /\ \A name \in DOMAIN r.skills : r.skills[name] \in valid
     /\ r.refused \/ \A a \in DOMAIN r.aliases : r.aliases[a] \in DOMAIN r.skills

LEMMA LoadingIsRight ==
  ASSUME NEW files \in SkillDirs, NEW order \in SetToSeqs(files)
  PROVE  LoadedFrom(Load(order), files)
<1> DEFINE n == Cardinality(files)
           r == Load(order)
           valid == {file \in files : Valid(file)}
<1>1. IsFiniteSet(files) /\ files \subseteq Files
  BY CommandsAssumption
<1>2. n \in Nat /\ order \in [1..n -> files] /\ \A i, j \in 1..n : i # j => order[i] # order[j]
  BY <1>1, FS_CardinalityType DEF SetToSeqs
<1>3. Listed(files)
  <2>1. ASSUME NEW file \in files
        PROVE  \E k \in Nat : DOMAIN file.aliases = 1..k
    <3>1. file.aliases \in Seq(Spellings)
      BY <1>1 DEF Files
    <3>2. Len(file.aliases) \in Nat /\ DOMAIN file.aliases = 1..Len(file.aliases)
      BY <3>1, LenProperties
    <3>3. QED
      BY <3>2
  <2>2. QED
    BY <2>1 DEF Listed
<1>4. \A file \in files : \E i \in 1..n : order[i] = file
  <2>1. IsFiniteSet(1..n) /\ Cardinality(1..n) = Cardinality(files)
    BY <1>2, FS_Interval
  <2>2. order \in Injection(1..n, files)
    BY <1>2 DEF Injection, IsInjective
  <2> HIDE DEF n
  <2>3. order \in Surjection(1..n, files)
    BY <1>1, <2>1, <2>2, FS_Injection
  <2>4. QED
    BY <2>3 DEF Surjection
<1> HIDE DEF n
<1>5. order \in Orders(n, files)
  BY <1>2 DEF Orders
<1>6. /\ r \in Registries(files, NamesOf(files), OthersOf(files))
      /\ r.refused <=> Collide(valid)
      /\ r.refused \/ Leads(r, valid)
      /\ \A name \in DOMAIN r.skills : r.skills[name] \in valid
      /\ r.refused \/ \A a \in DOMAIN r.aliases : r.aliases[a] \in DOMAIN r.skills
  BY <1>2, <1>3, <1>4, <1>5, LoadIsRight
<1>7. r.refused \in BOOLEAN
  BY <1>6 DEF Registries
<1> HIDE DEF r
<1>8. LoadedFrom(r, files)
  BY <1>6, <1>7 DEF LoadedFrom
<1>9. QED
  BY <1>8 DEF r

LEMMA ClaimsAre ==
  ASSUME NEW file
  PROVE  ClaimsOf(file) = Claims(file)
<1>1. AliasesOf(file) = {Lower[alias] : alias \in Range(file.aliases)}
  BY DEF AliasesOf, Range
<1>2. QED
  BY <1>1 DEF ClaimsOf, Claims

(* The files that the bot was started with, in whatever order. *)
Loaded == installed # {} => installed \in SkillDirs /\ \E order \in SetToSeqs(installed) : registry = Load(order)

LEMMA LoadedRight ==
  ASSUME Loaded, installed # {}
  PROVE  LoadedFrom(registry, installed) /\ installed \subseteq Files
<1>1. PICK order \in SetToSeqs(installed) : registry = Load(order)
  BY DEF Loaded
<1>2. installed \in SkillDirs
  BY DEF Loaded
<1>3. QED
  BY <1>1, <1>2, LoadingIsRight, CommandsAssumption

(* A name that the registry has is that of a file. *)
LEMMA SkillIsInstalled ==
  ASSUME Loaded, Ready, NEW name, Has(registry, name)
  PROVE  SkillOf(registry, name) \in Files /\ Valid(SkillOf(registry, name))
<1>1. LoadedFrom(registry, installed) /\ installed \subseteq Files /\ ~registry.refused
  BY LoadedRight DEF Ready
<1>2. \A key \in DOMAIN registry.skills : registry.skills[key] \in {file \in installed : Valid(file)}
  BY <1>1 DEF LoadedFrom
<1>3. \A a \in DOMAIN registry.aliases : registry.aliases[a] \in DOMAIN registry.skills
  BY <1>1 DEF LoadedFrom
<1>4. QED
  BY <1>1, <1>2, <1>3 DEF Has, SkillOf

-----------------------------------------------------------------------------
(* The command that is being handled                                           *)

CommandFields ==
  {"phase", "name", "text", "args", "recent", "matches", "film", "pictures", "told", "counted", "reply"}

(* Only what a step says changes. *)
LEMMA FieldsChange ==
  ASSUME NEW changes, Becomes(changes), DOMAIN command = CommandFields
  PROVE  /\ DOMAIN command' = CommandFields
         /\ \A f \in CommandFields : command'[f] = IF f \in DOMAIN changes THEN changes[f] ELSE command[f]
  BY DEF Becomes

LEMMA NoCommandIs ==
  /\ DOMAIN NoCommand = CommandFields /\ NoCommand.phase = "none" /\ NoCommand.text = <<>>
  /\ NoCommand.args = <<>> /\ NoCommand.film = <<>>
  /\ NoCommand.recent = <<>> /\ NoCommand.matches = <<>>
<1>1. DOMAIN NoCommand = CommandFields
  BY DEF NoCommand, CommandFields
<1>2. QED
  BY <1>1 DEF NoCommand

Written(value) == value.raw \in Seq(Words) /\ (value.type = "integer" => Len(value.raw) = 1)

(* With a skill that is installed, what was given is read; pictures are told of. *)
Running ==
  /\ command.phase \in CommandPhases
  /\ DOMAIN command = CommandFields
  /\ CommandIn("none") => command = NoCommand
  /\ ~CommandIn("none") => Ready
  /\ command.phase \in {"checking", "reading", "looking", "completing"} =>
       Has(registry, command.name) /\ AsciiLower[command.name] \notin BuiltIns
  /\ command.text \in Seq(Words)

Filled ==
  command.phase \in {"reading", "looking", "completing"} =>
    \A i \in DOMAIN command.args : Written(command.args[i])

Pictured ==
  /\ CommandIn("looking") => command.told \intersect {"photos", "posters", "title"} = {}
  /\ PicturesAnnounced

CommandStep ==
  \/ GiveCommand \/ CheckCommand \/ ReadRoom \/ LookUp \/ Complete \/ AnswerCommand

(* What each step makes of the command. *)
LEMMA GivenIs ==
  ASSUME GiveCommand
  PROVE  /\ DOMAIN command' = CommandFields /\ Ready
         /\ \/ command'.phase = "replying"
            \/ /\ command'.phase = "checking" /\ Has(registry, command'.name)
               /\ AsciiLower[command'.name] \notin BuiltIns
         /\ command'.text \in Texts
         /\ command'.recent = <<>> /\ command'.matches = <<>> /\ command'.film = <<>>
         /\ UNCHANGED <<installed, registry, log>>
<1>1. PICK name \in Spellings \ {""}, text \in Texts :
        LET given == Parsed(name, text) IN
        /\ ~HelpQuestion(given)
        /\ IF AsciiLower[given.name] \notin BuiltIns /\ Has(registry, given.name)
           THEN command' = [given EXCEPT !.phase = "checking"]
           ELSE \E answer \in BuiltInReplies(AsciiLower[given.name]), counted \in Counted(given) :
                  command' = [given EXCEPT !.phase = "replying", !.reply = answer, !.counted = counted]
  BY DEF GiveCommand
<1> DEFINE given == Parsed(name, text)
<1>2. /\ DOMAIN given = CommandFields /\ given.name = name /\ given.text = text
      /\ given.recent = <<>> /\ given.matches = <<>> /\ given.film = <<>>
  BY NoCommandIs DEF Parsed, CommandFields
<1> HIDE DEF given
<1>3. CASE /\ command' = [given EXCEPT !.phase = "checking"] /\ Has(registry, given.name)
           /\ AsciiLower[given.name] \notin BuiltIns
  <2>1. /\ DOMAIN command' = CommandFields /\ command'.phase = "checking" /\ command'.name = given.name
        /\ command'.text = given.text /\ command'.film = given.film
        /\ command'.recent = given.recent /\ command'.matches = given.matches
    BY <1>2, <1>3 DEF CommandFields
  <2>2. QED
    BY <1>2, <1>3, <2>1 DEF GiveCommand
<1>4. CASE \E answer \in BuiltInReplies(AsciiLower[given.name]), counted \in Counted(given) :
             command' = [given EXCEPT !.phase = "replying", !.reply = answer, !.counted = counted]
  <2>1. PICK answer, counted :
          command' = [given EXCEPT !.phase = "replying", !.reply = answer, !.counted = counted]
    BY <1>4
  <2>2. /\ DOMAIN command' = CommandFields /\ command'.phase = "replying"
        /\ command'.text = given.text /\ command'.film = given.film
        /\ command'.recent = given.recent /\ command'.matches = given.matches
    BY <1>2, <2>1 DEF CommandFields
  <2>3. QED
    BY <1>2, <2>2 DEF GiveCommand
<1>5. QED
  BY <1>1, <1>3, <1>4 DEF given

LEMMA CheckedIs ==
  ASSUME CheckCommand, DOMAIN command = CommandFields
  PROVE  /\ DOMAIN command' = CommandFields /\ UNCHANGED <<installed, registry, log>> /\ CommandIn("checking")
         /\ command'.name = command.name /\ command'.text = command.text /\ command'.film = command.film
         /\ command'.recent = command.recent /\ command'.matches = command.matches
         /\ \/ command'.phase = "replying"
            \/ /\ command'.phase = "reading" /\ command'.args = Resolved(Skill.args, Given)
               /\ ~Wrong(Skill.args, Given)
<1>1. CASE Becomes([phase |-> "replying", reply |-> "notice"])
  <2>1. QED
    BY <1>1, FieldsChange DEF CommandFields, CheckCommand
<1>2. CASE Becomes([phase |-> "reading", args |-> Resolved(Skill.args, Given)]) /\ ~Wrong(Skill.args, Given)
  BY <1>2, FieldsChange DEF CommandFields, CheckCommand
<1>3. QED
  BY <1>1, <1>2 DEF CheckCommand

(* What is read, each part or nothing in its place. *)
ReadWell ==
  /\ command'.recent = <<>> \/ command'.recent = Newest(log, Count)
  /\ \/ command'.matches = <<>> /\ (Uses("message_search") => "failed" \in command'.told)
     \/ command'.matches = Search(log, Query, SearchLimit)

LEMMA ReadIs ==
  ASSUME ReadRoom, DOMAIN command = CommandFields
  PROVE  /\ DOMAIN command' = CommandFields /\ UNCHANGED <<installed, registry, log>> /\ CommandIn("reading")
         /\ command'.name = command.name /\ command'.text = command.text /\ command'.args = command.args
         /\ command'.film = command.film
         /\ \/ command'.phase = "replying" /\ UNCHANGED <<command.recent, command.matches>>
            \/ /\ command'.phase = "looking" /\ ReadWell
               /\ command'.told \intersect {"photos", "posters", "title"} = {}
<1>1. CASE Becomes([phase |-> "replying", reply |-> "notice"])
  <2>1. /\ DOMAIN command' = CommandFields /\ command'.phase = "replying"
        /\ command'.name = command.name /\ command'.text = command.text /\ command'.args = command.args
        /\ command'.film = command.film
        /\ command'.recent = command.recent /\ command'.matches = command.matches
    BY <1>1, FieldsChange DEF CommandFields
  <2>2. QED
    BY <2>1 DEF ReadRoom
<1>2. CASE \E logged \in BOOLEAN, searched \in BOOLEAN :
             Becomes([phase |-> "looking",
                      recent |-> IF logged THEN Newest(log, Count) ELSE <<>>,
                      matches |-> IF searched THEN Search(log, Query, SearchLimit) ELSE <<>>,
                      told |-> (Skill.tools \intersect {"room_info", "current_time"})
                                 \union (IF Uses("message_search") /\ ~searched THEN {"failed"} ELSE {})])
  <2>1. PICK logged \in BOOLEAN, searched \in BOOLEAN :
          Becomes([phase |-> "looking",
                   recent |-> IF logged THEN Newest(log, Count) ELSE <<>>,
                   matches |-> IF searched THEN Search(log, Query, SearchLimit) ELSE <<>>,
                   told |-> (Skill.tools \intersect {"room_info", "current_time"})
                              \union (IF Uses("message_search") /\ ~searched THEN {"failed"} ELSE {})])
    BY <1>2
  <2> DEFINE recent == IF logged THEN Newest(log, Count) ELSE <<>>
             matches == IF searched THEN Search(log, Query, SearchLimit) ELSE <<>>
             told == (Skill.tools \intersect {"room_info", "current_time"})
                       \union (IF Uses("message_search") /\ ~searched THEN {"failed"} ELSE {})
  <2>2. /\ recent = <<>> \/ recent = Newest(log, Count)
        /\ \/ matches = <<>> /\ (Uses("message_search") => "failed" \in told)
           \/ matches = Search(log, Query, SearchLimit)
        /\ told \intersect {"photos", "posters", "title"} = {}
    OBVIOUS
  <2>3. Becomes([phase |-> "looking", recent |-> recent, matches |-> matches, told |-> told])
    BY <2>1
  <2> HIDE DEF recent, matches, told
  <2>4. /\ DOMAIN command' = CommandFields /\ command'.phase = "looking" /\ command'.told = told
        /\ command'.name = command.name /\ command'.text = command.text /\ command'.args = command.args
        /\ command'.film = command.film /\ command'.recent = recent /\ command'.matches = matches
    BY <2>3, FieldsChange DEF CommandFields
  <2>5. QED
    BY <2>2, <2>4 DEF ReadRoom, ReadWell
<1>3. QED
  BY <1>1, <1>2 DEF ReadRoom, Attempts

(* The film that a reply is about, of those that could be read. *)
Pickings(film, title) ==
  LET found == SearchFor(title)
      candidates == found.matched.candidates
  IN \E readable \in SUBSET Compared(candidates) :
       film = <<IF candidates = {} THEN 0 ELSE Chosen(found.results, candidates, readable), readable>>

(* What is heard says nothing of pictures, and each tool only of its own. *)
LEMMA HeardIs ==
  ASSUME NEW heard \in Heard
  PROVE  heard \intersect {"photos", "posters", "title"} = {}
<1> DEFINE films == IF IsText("title") THEN Tells("imdb_lookup", {"imdb", "failed"}) ELSE {{}}
           words == Tells("urban_dictionary", {"word", "failed"})
           choices == Tells("random_choice", {"choice"})
<1>0. Heard = {choice \union word \union film : choice \in choices, word \in words, film \in films}
  BY DEF Heard
<1> HIDE DEF films, words, choices
<1>1. PICK choice \in choices, word \in words, film \in films : heard = choice \union word \union film
  BY <1>0
<1> USE DEF films, words, choices
<1>2. choice \subseteq {"choice"}
  BY DEF Tells
<1>3. word \subseteq {"word", "failed"}
  BY DEF Tells
<1>4. film \subseteq {"imdb", "failed"}
  BY DEF Tells
<1>5. QED
  BY <1>1, <1>2, <1>3, <1>4

OfStrain(strain) ==
  /\ strain.pictures \subseteq {"strain"}
  /\ "strain" \in strain.pictures <=> "photos" \in strain.told
  /\ strain.told \intersect {"posters", "title"} = {}

LEMMA StrainIs ==
  ASSUME NEW strain \in StrainFindings
  PROVE  OfStrain(strain)
<1>1. OfStrain(Unasked) /\ OfStrain(Failed)
  <2>1. Unasked.told = {} /\ Unasked.pictures = {} /\ Failed.told = {"failed"} /\ Failed.pictures = {}
    BY DEF Unasked, Failed
  <2>2. QED
    BY <2>1 DEF OfStrain
<1>2. ASSUME NEW pictures, pictures \subseteq {"strain"}
      PROVE  OfStrain(Found("strain", <<>>, pictures, "photos"))
  <2>1. PICK finding : finding = Found("strain", <<>>, pictures, "photos")
    OBVIOUS
  <2>2. /\ finding.pictures = pictures
        /\ finding.told = {"strain"} \union (IF pictures = {} THEN {} ELSE {"photos"})
    BY <2>1 DEF Found
  <2>3. "strain" \in pictures <=> pictures # {}
    BY <1>2
  <2>4. OfStrain(finding)
    BY <1>2, <2>2, <2>3 DEF OfStrain
  <2>5. QED
    BY <2>1, <2>4
<1>3. ASSUME NEW hits, NEW highlighted, NEW drawn
      PROVE  OfStrain(StrainFound(hits, highlighted, drawn))
  <2> DEFINE n == SelectStrain(hits)
             pictures == IF n = 0 THEN {} ELSE StrainSheet(hits[n], highlighted, drawn)
  <2>1. pictures \subseteq {"strain"}
    BY DEF StrainSheet
  <2>2. StrainFound(hits, highlighted, drawn) = Found("strain", <<>>, pictures, "photos")
    BY DEF StrainFound
  <2> HIDE DEF pictures
  <2>3. QED
    BY <1>2, <2>1, <2>2
<1>4. \/ strain = Unasked \/ strain = Failed
      \/ \E hits, highlighted, drawn : strain = StrainFound(hits, highlighted, drawn)
  BY DEF StrainFindings
<1>5. QED
  BY <1>1, <1>3, <1>4

OfTitle(title) ==
  /\ title.pictures \subseteq {"poster", "cast"}
  /\ title.pictures # {} <=> "posters" \in title.told
  /\ "title" \notin title.told => title.pictures = {}
  /\ "photos" \notin title.told
  /\ title.film = <<>> \/ Pickings(title.film, Arg("title").raw)

LEMMA TitleIs ==
  ASSUME NEW title \in TitleFindings
  PROVE  OfTitle(title)
<1> DEFINE query == Arg("title").raw
           candidates == SearchFor(query).matched.candidates
<1>1. OfTitle(Unasked) /\ OfTitle(Failed)
  <2>1. /\ Unasked.told = {} /\ Unasked.pictures = {} /\ Unasked.film = <<>>
        /\ Failed.told = {"failed"} /\ Failed.pictures = {} /\ Failed.film = <<>>
    BY DEF Unasked, Failed
  <2>2. QED
    BY <2>1 DEF OfTitle
<1>2. ASSUME NEW readable \in SUBSET Compared(candidates), NEW finding \in TitlesFound(query, readable)
      PROVE  OfTitle(finding)
  <2> DEFINE chosen == IF candidates = {} THEN 0
                       ELSE Chosen(SearchFor(query).results, candidates, readable)
             film == <<chosen, readable>>
  <2>1. PICK pictures \in TitlePictures(chosen, readable) :
          finding = Found("title", <<chosen, readable>>, pictures, "posters")
    BY <1>2 DEF TitlesFound
  <2>2. pictures \subseteq {"poster", "cast"}
    BY <2>1 DEF TitlePictures
  <2>3. Pickings(film, query)
    BY DEF Pickings
  <2> HIDE DEF chosen, query, candidates
  <2>4. /\ finding.pictures = pictures /\ finding.film = film
        /\ finding.told = {"title"} \union (IF pictures = {} THEN {} ELSE {"posters"})
    BY <2>1 DEF Found
  <2> HIDE DEF film
  <2>5. QED
    BY <2>2, <2>3, <2>4 DEF OfTitle, query
<1>3. \/ title = Unasked \/ title = Failed
      \/ \E readable \in SUBSET Compared(candidates) : title \in TitlesFound(query, readable)
  BY DEF TitleFindings
<1>4. QED
  BY <1>1, <1>2, <1>3

LEMMA LookedUpIs ==
  ASSUME LookUp, DOMAIN command = CommandFields,
         command.told \intersect {"photos", "posters", "title"} = {}
  PROVE  /\ DOMAIN command' = CommandFields /\ UNCHANGED <<installed, registry, log>> /\ CommandIn("looking")
         /\ command'.name = command.name /\ command'.text = command.text /\ command'.args = command.args
         /\ command'.recent = command.recent /\ command'.matches = command.matches
         /\ command'.phase = "completing"
         /\ "strain" \in command'.pictures <=> "photos" \in command'.told /\ "title" \notin command'.told
         /\ command'.pictures \intersect {"poster", "cast"} # {} <=> "posters" \in command'.told
         /\ command'.film = <<>> \/ Pickings(command'.film, Arg("title").raw)
<1>1. PICK heard \in Heard, strain \in StrainFindings, title \in TitleFindings :
        Becomes([phase |-> "completing", film |-> title.film,
                 pictures |-> IF "title" \in title.told THEN title.pictures ELSE strain.pictures,
                 told |-> command.told \union heard \union strain.told \union title.told])
  BY DEF LookUp
<1> DEFINE film == title.film
           pictures == IF "title" \in title.told THEN title.pictures ELSE strain.pictures
           told == command.told \union heard \union strain.told \union title.told
<1>2. OfStrain(strain) /\ OfTitle(title) /\ heard \intersect {"photos", "posters", "title"} = {}
  BY HeardIs, StrainIs, TitleIs
<1>3. /\ "title" \in told <=> "title" \in title.told
      /\ "photos" \in told <=> "photos" \in strain.told
      /\ "posters" \in told <=> "posters" \in title.told
  BY <1>2 DEF OfStrain, OfTitle
<1>4. /\ "strain" \in pictures <=> "photos" \in told /\ "title" \notin told
      /\ pictures \intersect {"poster", "cast"} # {} <=> "posters" \in told
  <2> HIDE DEF told
  <2>1. CASE "title" \in title.told
    <3>1. pictures = title.pictures /\ pictures \subseteq {"poster", "cast"}
      BY <1>2, <2>1 DEF OfTitle
    <3>2. pictures # {} <=> "posters" \in title.told
      BY <1>2, <3>1 DEF OfTitle
    <3> HIDE DEF pictures
    <3>3. "strain" \notin pictures /\ (pictures \intersect {"poster", "cast"} # {} <=> pictures # {})
      BY <3>1
    <3>4. QED
      BY <1>3, <2>1, <3>2, <3>3
  <2>2. CASE "title" \notin title.told
    <3>1. pictures = strain.pictures /\ pictures \subseteq {"strain"} /\ "posters" \notin title.told
      BY <1>2, <2>2 DEF OfStrain, OfTitle
    <3>2. "strain" \in pictures <=> "photos" \in strain.told
      BY <1>2, <3>1 DEF OfStrain
    <3> HIDE DEF pictures
    <3>3. pictures \intersect {"poster", "cast"} = {}
      BY <3>1
    <3>4. QED
      BY <1>3, <2>2, <3>1, <3>2, <3>3
  <2>3. QED
    BY <2>1, <2>2
<1>5. film = <<>> \/ Pickings(film, Arg("title").raw)
  BY <1>2 DEF OfTitle
<1>6. Becomes([phase |-> "completing", film |-> film, pictures |-> pictures, told |-> told])
  BY <1>1
<1> HIDE DEF film, pictures, told
<1>7. /\ DOMAIN command' = CommandFields /\ command'.phase = "completing"
      /\ command'.name = command.name /\ command'.text = command.text /\ command'.args = command.args
      /\ command'.recent = command.recent /\ command'.matches = command.matches
      /\ command'.pictures = pictures /\ command'.told = told /\ command'.film = film
  BY <1>6, FieldsChange DEF CommandFields
<1>8. UNCHANGED <<installed, registry, log>> /\ CommandIn("looking")
  BY DEF LookUp
<1>9. QED
  BY <1>4, <1>5, <1>7, <1>8

LEMMA CompletedIs ==
  ASSUME Complete, DOMAIN command = CommandFields
  PROVE  /\ DOMAIN command' = CommandFields /\ UNCHANGED <<installed, registry, log>> /\ CommandIn("completing")
         /\ command'.name = command.name /\ command'.text = command.text /\ command'.phase = "replying"
         /\ command'.recent = command.recent /\ command'.matches = command.matches
<1>1. CASE Becomes([phase |-> "replying", reply |-> "notice", pictures |-> {}])
  BY <1>1, FieldsChange DEF CommandFields, Complete
<1>2. CASE \E answer : Becomes([phase |-> "replying", reply |-> answer])
  BY <1>2, FieldsChange DEF CommandFields, Complete
<1>3. QED
  BY <1>1, <1>2 DEF Complete

LEMMA AnsweredIs ==
  ASSUME AnswerCommand
  PROVE  command' = NoCommand /\ UNCHANGED <<installed, registry>> /\ CommandIn("replying")
  BY DEF AnswerCommand

(* What is given for an argument is made of the words of the message, or it is *)
(* what the skill has instead.                                                 *)
LEMMA ResolvedIsWritten ==
  ASSUME NEW specs \in Seq(Specs), NEW text \in Seq(Words), NEW i \in DOMAIN Resolved(specs, ParseArgs(specs, text))
  PROVE  Written(Resolved(specs, ParseArgs(specs, text))[i])
<1> DEFINE given == ParseArgs(specs, text)
<1>1. /\ Len(text) \in Nat /\ DOMAIN text = 1..Len(text) /\ \A k \in DOMAIN text : text[k] \in Words
      /\ Len(specs) \in Nat /\ DOMAIN specs = 1..Len(specs) /\ \A k \in DOMAIN specs : specs[k] \in Specs
  BY LenProperties, ElementOfSeq
<1>2. DOMAIN given = {j \in DOMAIN specs : j <= Len(text)}
  BY DEF ParseArgs
<1>3. /\ i \in DOMAIN specs
      /\ Resolved(specs, given)[i] = IF i \in DOMAIN given THEN given[i] ELSE specs[i].default
  BY <1>2 DEF Resolved
<1>4. CASE i \in DOMAIN given
  <2> DEFINE raw == IF i = Len(specs) THEN SubSeq(text, i, Len(text)) ELSE <<text[i]>>
  <2>1. i \in 1..Len(text)
    BY <1>1, <1>2, <1>4
  <2>2. raw \in Seq(Words)
    <3>1. SubSeq(text, i, Len(text)) \in Seq(Words)
      BY <1>1, <2>1, SubSeqProperties
    <3>2. <<text[i]>> \in Seq(Words)
      BY <1>1, <2>1
    <3>3. QED
      BY <3>1, <3>2
  <2>3. given[i] = ParseArg(specs[i].kind, raw)
    BY <1>2, <1>4 DEF ParseArgs
  <2> HIDE DEF raw, given
  <2>4. Written(ParseArg(specs[i].kind, raw))
    BY <2>2 DEF ParseArg, Value, Written
  <2>5. QED
    BY <1>3, <1>4, <2>3, <2>4 DEF given
<1>5. CASE i \notin DOMAIN given
  <2>1. specs[i].default \in Values
    BY <1>1, <1>3 DEF Specs
  <2>2. QED
    BY <1>3, <1>5, <2>1 DEF Values, Written
<1>6. QED
  BY <1>4, <1>5

CommandInv == Loaded /\ Running /\ Filled /\ Pictured

LEMMA InitialCommand == CommandsInit => CommandInv
<1> SUFFICES ASSUME CommandsInit
             PROVE  CommandInv
  OBVIOUS
<1>1. installed = {} /\ command = NoCommand
  BY DEF CommandsInit
<1>2. Loaded
  BY <1>1 DEF Loaded
<1>3. Running
  BY <1>1, NoCommandIs DEF Running, CommandIn, CommandPhases
<1>4. Filled /\ Pictured
  BY <1>1, NoCommandIs DEF Filled, Pictured, PicturesAnnounced, CommandIn
<1>5. QED
  BY <1>2, <1>3, <1>4 DEF CommandInv

LEMMA LoadingKeeps ==
  ASSUME CommandInv, LoadSkills
  PROVE  CommandInv'
<1>1. installed = {} /\ UNCHANGED command
  BY DEF LoadSkills
<1>2. CommandIn("none") /\ command = NoCommand
  BY <1>1 DEF CommandInv, Running, Ready
<1>3. PICK files \in SkillDirs : \E order \in SetToSeqs(files) : installed' = files /\ registry' = Load(order)
  BY DEF LoadSkills
<1>4. Loaded'
  BY <1>3 DEF Loaded
<1>5. Running' /\ Filled' /\ Pictured'
  BY <1>1, <1>2, NoCommandIs
  DEF CommandInv, Running, Filled, Pictured, PicturesAnnounced, CommandIn, CommandPhases
<1>6. QED
  BY <1>4, <1>5 DEF CommandInv

LEMMA SameCommandKeeps ==
  ASSUME CommandInv, UNCHANGED <<installed, registry, command>>
  PROVE  CommandInv'
  BY DEF CommandInv, Loaded, Running, Filled, Pictured, PicturesAnnounced, CommandIn, Ready, Has

LEMMA CommandStepKeeps ==
  ASSUME CommandInv, CommandStep
  PROVE  CommandInv'
<1>1. DOMAIN command = CommandFields /\ command.text \in Seq(Words)
  BY DEF CommandInv, Running
<1>2. UNCHANGED <<installed, registry>>
  BY DEF CommandStep, GiveCommand, CheckCommand, ReadRoom, LookUp, Complete, AnswerCommand
<1>3. Loaded'
  BY <1>2 DEF CommandInv, Loaded
<1>4. CASE GiveCommand
  <2>1. command'.text \in Seq(Words)
    BY <1>4, GivenIs, CommandsAssumption
  <2>2. Running'
    BY <1>2, <1>4, <2>1, GivenIs DEF Running, CommandIn, CommandPhases, Ready, Has
  <2>3. Filled' /\ Pictured'
    BY <1>4, GivenIs DEF Filled, Pictured, PicturesAnnounced, CommandIn
  <2>4. QED
    BY <1>3, <2>2, <2>3 DEF CommandInv
<1>5. CASE CheckCommand
  <2>1. Ready /\ Has(registry, command.name) /\ AsciiLower[command.name] \notin BuiltIns
    BY <1>5, CheckedIs, <1>1 DEF CommandInv, Running, CommandIn
  <2>2. Running'
    BY <1>1, <1>2, <1>5, <2>1, CheckedIs DEF Running, CommandIn, CommandPhases, Ready, Has
  <2>3. Pictured'
    BY <1>1, <1>5, CheckedIs DEF Pictured, PicturesAnnounced, CommandIn
  <2>4. Filled'
    <3>1. SUFFICES ASSUME command'.phase = "reading"
                   PROVE  \A i \in DOMAIN command'.args : Written(command'.args[i])
      BY <1>1, <1>5, CheckedIs DEF Filled
    <3>2. command'.args = Resolved(Skill.args, ParseArgs(Skill.args, command.text))
      BY <1>1, <1>5, <3>1, CheckedIs DEF Given
    <3>3. Skill \in Files
      BY <2>1, SkillIsInstalled DEF CommandInv, Skill
    <3>4. Skill.args \in Seq(Specs)
      BY <3>3 DEF Files
    <3>5. QED
      BY <1>1, <3>2, <3>4, ResolvedIsWritten
  <2>5. QED
    BY <1>3, <2>2, <2>3, <2>4 DEF CommandInv
<1>6. CASE ReadRoom
  <2>1. /\ Ready /\ Has(registry, command.name) /\ AsciiLower[command.name] \notin BuiltIns
        /\ \A i \in DOMAIN command.args : Written(command.args[i])
    BY <1>6, <1>1, ReadIs DEF CommandInv, Running, Filled, CommandIn
  <2>2. Running'
    BY <1>1, <1>2, <1>6, <2>1, ReadIs DEF Running, CommandIn, CommandPhases, Ready, Has
  <2>3. Pictured' /\ Filled'
    BY <1>1, <1>6, <2>1, ReadIs DEF Pictured, PicturesAnnounced, Filled, CommandIn
  <2>4. QED
    BY <1>3, <2>2, <2>3 DEF CommandInv
<1>7. CASE LookUp
  <2>1. CommandIn("looking")
    BY <1>7 DEF LookUp
  <2>2. /\ Ready /\ Has(registry, command.name) /\ AsciiLower[command.name] \notin BuiltIns
        /\ command.told \intersect {"photos", "posters", "title"} = {}
        /\ \A i \in DOMAIN command.args : Written(command.args[i])
    BY <2>1 DEF CommandInv, Running, Pictured, Filled, CommandIn
  <2>3. /\ DOMAIN command' = CommandFields /\ command'.phase = "completing" /\ command'.name = command.name
        /\ command'.text = command.text /\ command'.args = command.args
        /\ "strain" \in command'.pictures <=> "photos" \in command'.told /\ "title" \notin command'.told
        /\ command'.pictures \intersect {"poster", "cast"} # {} <=> "posters" \in command'.told
    BY <1>1, <1>7, <2>2, LookedUpIs
  <2>4. Running'
    BY <1>1, <1>2, <2>2, <2>3 DEF Running, CommandIn, CommandPhases, Ready, Has
  <2>5. Pictured' /\ Filled'
    BY <2>2, <2>3 DEF Pictured, PicturesAnnounced, Filled, CommandIn
  <2>6. QED
    BY <1>3, <2>4, <2>5 DEF CommandInv
<1>8. CASE Complete
  <2>1. Ready
    BY <1>1, <1>8, CompletedIs DEF CommandInv, Running, CommandIn
  <2>2. Running' /\ Pictured' /\ Filled'
    BY <1>1, <1>2, <1>8, <2>1, CompletedIs
    DEF Running, Pictured, PicturesAnnounced, Filled, CommandIn, CommandPhases, Ready, Has
  <2>3. QED
    BY <1>3, <2>2 DEF CommandInv
<1>9. CASE AnswerCommand
  <2>1. command' = NoCommand
    BY <1>9, AnsweredIs
  <2>2. Running' /\ Pictured' /\ Filled'
    BY <2>1, NoCommandIs DEF Running, Pictured, PicturesAnnounced, Filled, CommandIn, CommandPhases
  <2>3. QED
    BY <1>3, <2>2 DEF CommandInv
<1>10. QED
  BY <1>4, <1>5, <1>6, <1>7, <1>8, <1>9 DEF CommandStep

LEMMA CommandSteps ==
  ASSUME [Next]_vars
  PROVE  CommandStep \/ LoadSkills \/ UNCHANGED <<installed, registry, command>>
  BY DEF Next, vars, commandVars, Started, MessageLogged, ReplyBegins, ReplyGathered, ReplyGrounded,
         ReplyEnds, CommandBegins, CommandGoesOn, CommandEnds, CommandStep

LEMMA CommandInvariant == Spec => []CommandInv
<1>1. Init => CommandInv
  BY InitialCommand DEF Init
<1>2. CommandInv /\ [Next]_vars => CommandInv'
  BY CommandSteps, CommandStepKeeps, LoadingKeeps, SameCommandKeeps
<1>3. QED
  BY <1>1, <1>2, PTL DEF Spec

LEMMA LoadedGivesRight ==
  ASSUME Loaded, Running
  PROVE  RightSkill
<1>1. SUFFICES ASSUME installed # {}
               PROVE  RightSkill
  BY DEF RightSkill
<1>2. LoadedFrom(registry, installed)
  BY <1>1, LoadedRight
<1>3. registry.refused <=> Collide(Sound)
  BY <1>2 DEF LoadedFrom, Sound
<1>4. registry.refused \/ Leads(registry, Sound)
  BY <1>2 DEF LoadedFrom, Sound
<1>5. \A file : NamedTwice(file) <=> Lower[file.name] \in AliasesOf(file)
  BY DEF NamedTwice, AliasesOf, Range
<1>6. registry.refused <=>
        \/ \E one, other \in Sound : one # other /\ Claims(one) \intersect Claims(other) # {}
        \/ \E file \in Sound : NamedTwice(file)
  BY <1>3, <1>5, ClaimsAre DEF Collide
<1>7. ASSUME ~registry.refused, NEW name \in Spellings
      PROVE  /\ Has(registry, name) => \E file \in Sound : Lower[name] \in Claims(file)
             /\ \A file \in Sound : Lower[name] \in Claims(file) =>
                  Has(registry, name) /\ SkillOf(registry, name) = file
  <2>1. Has(registry, name) => \E file \in Sound : Lower[name] \in Claims(file)
    BY <1>4, <1>7, ClaimsAre DEF Leads, Has
  <2>2. ASSUME NEW file \in Sound, Lower[name] \in Claims(file)
        PROVE  Has(registry, name) /\ SkillOf(registry, name) = file
    <3>1. Lower[name] \in ClaimsOf(file)
      BY <2>2, ClaimsAre
    <3>2. QED
      BY <1>4, <1>7, <2>2, <3>1 DEF Leads, Has, SkillOf
  <2>3. QED
    BY <2>1, <2>2
<1>8. command.phase \in {"checking", "reading", "looking", "completing"} =>
        Has(registry, command.name) /\ AsciiLower[command.name] \notin BuiltIns
  BY DEF Running
<1>9. QED
  BY <1>6, <1>7, <1>8 DEF RightSkill

(* Whatever files there are and in whatever order they are read, a name or an  *)
(* alias leads to the one skill that has it, or the bot does not start, which  *)
(* is so exactly where two claim the same, or one has an alias that is its own *)
(* name but for capitals outside ASCII; and no skill runs in the place of a    *)
(* built-in command (src/src/skills.rs:142-147, 196-223, 300-350,              *)
(* src/src/handler.rs:1587-1607).                                              *)
THEOREM SkillsAreRight == Spec => []RightSkill
<1>1. CommandInv => RightSkill
  BY LoadedGivesRight DEF CommandInv
<1>2. QED
  BY <1>1, CommandInvariant, PTL

-----------------------------------------------------------------------------
(* A search                                                                    *)

(* A query's terms are words of it, in lower case, gathered one by one. *)
Gathers(query, n, h) ==
  \A i \in 1..n : h[i] = IF LowerWord[query[i]] \in Stopwords \/ Len(h[i - 1]) = MaxTerms THEN h[i - 1]
                         ELSE Append(h[i - 1], LowerWord[query[i]])

Lowered(query, n) == {LowerWord[query[i]] : i \in 1..n}

LEMMA TermsGather ==
  ASSUME NEW n \in Nat, NEW query, DOMAIN query = 1..n
  PROVE  \E h \in [0..n -> Seq(Lowered(query, n))] :
           h[0] = <<>> /\ h[n] = Terms(query) /\ Gathers(query, n, h)
<1> DEFINE base == <<>>
           W == Lowered(query, n)
           D == Seq(W)
           More(i, terms) ==
             IF LowerWord[query[i]] \in Stopwords \/ Len(terms) = MaxTerms THEN terms
             ELSE Append(terms, LowerWord[query[i]])
           step == [p \in (1..n) \X D |-> More(p[1], p[2])]
           Folds(g) == g = [T \in SUBSET (1..n) |->
                              IF T = {} THEN base ELSE More(Top(T), g[T \ {Top(T)}])]
           iter == CHOOSE g : Folds(g)
<1>1. Terms(query) = iter[1..n]
  BY DEF Terms, FoldLeft, MapThenFoldSet, Max, Top
<1>2. base \in D /\ \A i \in 1..n, terms \in D : More(i, terms) \in D
  <2>1. <<>> \in D
    OBVIOUS
  <2>2. ASSUME NEW i \in 1..n, NEW terms \in D
        PROVE  More(i, terms) \in D
    <3>1. LowerWord[query[i]] \in W
      BY DEF Lowered
    <3> HIDE DEF W
    <3>2. QED
      BY <3>1
  <2>3. QED
    BY <2>1, <2>2
<1>3. step \in [(1..n) \X D -> D] /\ \A i \in 1..n, terms \in D : step[<<i, terms>>] = More(i, terms)
  <2> HIDE DEF D, More
  <2>1. QED
    BY <1>2
<1>4. \A T \in SUBSET (1..n) : T # {} => Top(T) \in 1..n
  BY TopIs
<1> HIDE DEF D, step, W, More, base
<1>5. base \in D /\ step \in [(1..n) \X D -> D]
  BY <1>2, <1>3
<1>6. Folds(iter)
  <2>1. PICK g \in [SUBSET (1..n) -> D] :
          FoldsUp(g, n, base, step)
    BY <1>5, FoldExists
  <2>2. \A T \in SUBSET (1..n) : T # {} => step[<<Top(T), g[T \ {Top(T)}]>>] = More(Top(T), g[T \ {Top(T)}])
    BY <1>3, <1>4
  <2>3. \A T \in SUBSET (1..n) : g[T] = IF T = {} THEN base ELSE More(Top(T), g[T \ {Top(T)}])
    BY <2>1, <2>2 DEF FoldsUp
  <2>4. Folds(g)
    BY <2>3
  <2>5. QED
    BY <2>4
<1> HIDE DEF iter
<1>7. StepsIn(iter, n, D, base, step)
  BY <1>3, <1>4, <1>6 DEF StepsIn
<1> HIDE DEF Folds
<1>8. PICK h \in [0..n -> D] : Climbs(h, n, base, step) /\ h[n] = iter[1..n]
  BY <1>5, <1>7, FoldInOrder DEF RunsTo
<1>9. ASSUME NEW i \in 1..n
      PROVE  h[i] = More(i, h[i - 1])
  <2>1. h[i - 1] \in D
    OBVIOUS
  <2>2. QED
    BY <1>3, <1>8, <2>1 DEF Climbs
<1>10. QED
  BY <1>1, <1>8, <1>9 DEF Climbs, Gathers, More, D, W, base

Messages(words) == [words : words, search : BOOLEAN, ts : Nat]

LEMMA TermsAre ==
  ASSUME NEW n \in Nat, NEW query, DOMAIN query = 1..n
  PROVE  /\ Terms(query) \in Seq(Lowered(query, n))
         /\ \A i \in DOMAIN Terms(query) : \E j \in 1..n : Terms(query)[i] = LowerWord[query[j]]
<1> DEFINE W == Lowered(query, n)
<1>1. PICK h \in [0..n -> Seq(W)] : h[0] = <<>> /\ h[n] = Terms(query) /\ Gathers(query, n, h)
  BY TermsGather
<1>2. Terms(query) \in Seq(W)
  <2>1. n \in 0..n
    OBVIOUS
  <2> HIDE DEF W
  <2>2. QED
    BY <1>1, <2>1
<1> HIDE DEF W
<1>3. \A i \in DOMAIN Terms(query) : Terms(query)[i] \in W
  BY <1>2
<1>4. QED
  BY <1>2, <1>3 DEF W, Lowered

LEMMA ScoreCounts ==
  ASSUME NEW message, NEW S, NEW terms \in Seq(S)
  PROVE  Score(message, terms) \in Nat
<1> DEFINE places == {i \in DOMAIN terms : \E word \in message.words : LowerWord[word] = terms[i]}
<1>1. Len(terms) \in Nat /\ DOMAIN terms = 1..Len(terms)
  BY LenProperties
<1>2. IsFiniteSet(1..Len(terms)) /\ places \in SUBSET (1..Len(terms))
  BY <1>1, FS_Interval
<1>3. Cardinality(places) \in Nat
  BY <1>2, FS_Subset, FS_CardinalityType
<1>4. QED
  BY <1>3 DEF Score

(* A term that some word is scores. *)
LEMMA ScoresSome ==
  ASSUME NEW message, NEW S, NEW terms \in Seq(S), NEW i \in DOMAIN terms,
         NEW word \in message.words, LowerWord[word] = terms[i]
  PROVE  Score(message, terms) > 0
<1> DEFINE places == {k \in DOMAIN terms : \E w \in message.words : LowerWord[w] = terms[k]}
<1>1. Len(terms) \in Nat /\ DOMAIN terms = 1..Len(terms)
  BY LenProperties
<1>2. IsFiniteSet(1..Len(terms)) /\ places \in SUBSET (1..Len(terms))
  BY <1>1, FS_Interval
<1>3. IsFiniteSet(places) /\ i \in places
  BY <1>2, FS_Subset
<1> HIDE DEF places
<1>4. Cardinality(places) \in Nat /\ Cardinality(places) # 0
  BY <1>3, FS_CardinalityType, FS_EmptySet
<1>5. QED
  BY <1>4 DEF Score, places

(* The orders that a search goes by. *)
Betters(entries, terms) == {p \in (DOMAIN entries) \X (DOMAIN entries) : Before(entries, terms, p[1], p[2])}

Olders(entries, terms) ==
  {p \in (DOMAIN entries) \X (DOMAIN entries) :
     \/ entries[p[1]].ts < entries[p[2]].ts
     \/ entries[p[1]].ts = entries[p[2]].ts /\ Before(entries, terms, p[1], p[2])}

LEMMA SearchOrders ==
  ASSUME NEW words, NEW entries \in Seq(Messages(words)), NEW S, NEW terms \in Seq(S)
  PROVE  Linear(Betters(entries, terms), DOMAIN entries) /\ Linear(Olders(entries, terms), DOMAIN entries)
<1> DEFINE N == DOMAIN entries
<1>1. N \subseteq Nat /\ \A n \in N : entries[n] \in Messages(words)
  BY LenProperties, ElementOfSeq
<1>2. \A n \in N : entries[n].ts \in Nat
  BY <1>1 DEF Messages
<1>3. \A n \in N : Score(entries[n], terms) \in Nat
  BY ScoreCounts
<1> HIDE DEF N
<1>4. /\ \A a \in N : ~Before(entries, terms, a, a)
      /\ \A a, b, c \in N : Before(entries, terms, a, b) /\ Before(entries, terms, b, c) => Before(entries, terms, a, c)
      /\ \A a, b \in N : a # b => Before(entries, terms, a, b) \/ Before(entries, terms, b, a)
  <2> DEFINE score(a) == Score(entries[a], terms)
             ts(a) == entries[a].ts
  <2>1. \A a, b \in N :
          Before(entries, terms, a, b)
            <=> \/ score(a) > score(b)
                \/ score(a) = score(b) /\ ts(a) > ts(b)
                \/ score(a) = score(b) /\ ts(a) = ts(b) /\ a < b
    BY DEF Before
  <2>2. \A a \in N : a \in Nat /\ score(a) \in Nat /\ ts(a) \in Nat
    BY <1>1, <1>2, <1>3
  <2> HIDE DEF score, ts
  <2>3. \A a \in N : ~Before(entries, terms, a, a)
    BY ONLY <2>1, <2>2
  <2>4. ASSUME NEW a \in N, NEW b \in N, NEW c \in N, Before(entries, terms, a, b), Before(entries, terms, b, c)
        PROVE  Before(entries, terms, a, c)
    <3>1. a \in Nat /\ b \in Nat /\ c \in Nat /\ score(a) \in Nat /\ score(b) \in Nat /\ score(c) \in Nat
          /\ ts(a) \in Nat /\ ts(b) \in Nat /\ ts(c) \in Nat
      BY <2>2
    <3>2. QED
      BY <2>1, <2>4, <3>1
  <2>5. \A a, b \in N : a # b => Before(entries, terms, a, b) \/ Before(entries, terms, b, a)
    BY ONLY <2>1, <2>2
  <2>6. QED
    BY <2>3, <2>4, <2>5
<1>5. \A a, b \in N : <<a, b>> \in Betters(entries, terms) <=> Before(entries, terms, a, b)
  BY DEF Betters, N
<1>6. \A a, b \in N : <<a, b>> \in Olders(entries, terms) <=>
        entries[a].ts < entries[b].ts \/ (entries[a].ts = entries[b].ts /\ Before(entries, terms, a, b))
  BY DEF Olders, N
<1>7. Linear(Betters(entries, terms), N)
  BY <1>4, <1>5 DEF Linear
<1>8. Linear(Olders(entries, terms), N)
  <2> DEFINE Earlier(a, b) == entries[a].ts < entries[b].ts \/ (entries[a].ts = entries[b].ts /\ Before(entries, terms, a, b))
  <2>1. \A a \in N : ~Earlier(a, a)
    BY <1>2, <1>4
  <2>2. ASSUME NEW a \in N, NEW b \in N, NEW c \in N, Earlier(a, b), Earlier(b, c)
        PROVE  Earlier(a, c)
    BY <1>2, <1>4, <2>2
  <2>3. \A a, b \in N : a # b => Earlier(a, b) \/ Earlier(b, a)
    BY <1>2, <1>4
  <2>4. \A a, b \in N : <<a, b>> \in Olders(entries, terms) <=> Earlier(a, b)
    BY <1>6
  <2> HIDE DEF Earlier
  <2>5. QED
    BY <2>1, <2>2, <2>3, <2>4 DEF Linear
<1>9. QED
  BY <1>7, <1>8 DEF N

(* A search gives what it keeps, the oldest first.                             *)
Kept(entries, terms, limit) ==
  {n \in Candidates(entries, terms) :
     Cardinality({m \in Candidates(entries, terms) : Before(entries, terms, m, n)}) < limit}

Results(entries, terms, limit, seq) ==
  LET kept == Kept(entries, terms, limit)
  IN /\ seq \in [1..Cardinality(kept) -> kept] /\ Cardinality(kept) \in Nat
     /\ \A n \in kept : \E i \in 1..Cardinality(kept) : seq[i] = n
     /\ \A i, j \in 1..Cardinality(kept) : i < j => entries[seq[i]].ts <= entries[seq[j]].ts

LEMMA SearchGives ==
  ASSUME NEW words, NEW entries \in Seq(Messages(words)), NEW n \in Nat, NEW query, DOMAIN query = 1..n,
         NEW limit
  PROVE  Results(entries, Terms(query), limit, Search(entries, query, limit))
<1> DEFINE terms == Terms(query)
           kept == Kept(entries, terms, limit)
           Earlier(a, b) == entries[a].ts < entries[b].ts \/ (entries[a].ts = entries[b].ts /\ Before(entries, terms, a, b))
           Fits(seq) == /\ seq \in [1..Cardinality(kept) -> kept]
                        /\ \A i, j \in DOMAIN seq : i < j => Earlier(seq[i], seq[j])
           result == CHOOSE seq \in [1..Cardinality(kept) -> kept] :
                       \A i, j \in DOMAIN seq : i < j => Earlier(seq[i], seq[j])
<1>1. Search(entries, query, limit) = result
  BY DEF Search, InOrder, Kept
<1>2. terms \in Seq(Lowered(query, n))
  BY TermsAre
<1> HIDE DEF terms
<1>3. Len(entries) \in Nat /\ DOMAIN entries = 1..Len(entries) /\ \A k \in DOMAIN entries : entries[k] \in Messages(words)
  BY LenProperties, ElementOfSeq
<1>4. kept \in SUBSET (DOMAIN entries)
  BY DEF Kept, Candidates
<1>5. IsFiniteSet(kept) /\ Cardinality(kept) \in Nat
  <2>1. IsFiniteSet(DOMAIN entries)
    BY <1>3, FS_Interval
  <2> HIDE DEF kept
  <2>2. IsFiniteSet(kept)
    BY <1>4, <2>1, FS_Subset
  <2>3. QED
    BY <2>2, FS_CardinalityType
<1> HIDE DEF kept
<1>6. Linear(Olders(entries, terms), kept)
  <2>1. Linear(Olders(entries, terms), DOMAIN entries)
    BY <1>2, SearchOrders
  <2>2. QED
    BY <1>4, <2>1, LinearPart
<1>7. \A a, b \in kept : <<a, b>> \in Olders(entries, terms) <=> Earlier(a, b)
  BY <1>4 DEF Olders
<1> HIDE DEF Earlier
<1>8. \E seq : Fits(seq)
  <2>1. PICK seq : Ordered(seq, Olders(entries, terms), kept)
    BY <1>5, <1>6, OrderExists
  <2>2. seq \in [1..Cardinality(kept) -> kept] /\ DOMAIN seq = 1..Cardinality(kept)
    BY <2>1 DEF Ordered
  <2>3. \A i, j \in DOMAIN seq : i < j => Earlier(seq[i], seq[j])
    BY <1>7, <2>1, <2>2 DEF Ordered
  <2>4. QED
    BY <2>2, <2>3
<1>9. Fits(result)
  BY <1>8
<1> HIDE DEF result
<1>10. Ordered(result, Olders(entries, terms), kept)
  BY <1>7, <1>9 DEF Ordered
<1>11. \A m \in kept : \E i \in 1..Cardinality(kept) : result[i] = m
  BY <1>5, <1>6, <1>10, OrderedOnto
<1>12. ASSUME NEW i \in 1..Cardinality(kept), NEW j \in 1..Cardinality(kept), i < j
       PROVE  entries[result[i]].ts <= entries[result[j]].ts
  <2>1. Earlier(result[i], result[j]) /\ result[i] \in DOMAIN entries /\ result[j] \in DOMAIN entries
    BY <1>4, <1>9, <1>12
  <2>2. entries[result[i]].ts \in Nat /\ entries[result[j]].ts \in Nat
    BY <1>3, <2>1 DEF Messages
  <2>3. QED
    BY <2>1, <2>2 DEF Earlier
<1>13. Results(entries, terms, limit, result)
  BY <1>5, <1>9, <1>11, <1>12 DEF Results, kept
<1>14. QED
  BY <1>1, <1>13 DEF terms

(* What is not kept matches no better than what is, of which there is as much  *)
(* as there may be.                                                            *)
LEMMA KeptAreBest ==
  ASSUME NEW words, NEW entries \in Seq(Messages(words)), NEW S, NEW terms \in Seq(S), NEW limit \in Nat,
         NEW n \in Candidates(entries, terms), n \notin Kept(entries, terms, limit)
  PROVE  /\ Cardinality(Kept(entries, terms, limit)) = limit
         /\ \A m \in Kept(entries, terms, limit) : Before(entries, terms, m, n)
<1> DEFINE C == Candidates(entries, terms)
           R == Betters(entries, terms)
           first == {y \in C : Cardinality(Ahead(R, C, y)) < limit}
<1>1. C \in SUBSET (DOMAIN entries) /\ IsFiniteSet(DOMAIN entries)
  <2>1. Len(entries) \in Nat /\ DOMAIN entries = 1..Len(entries)
    BY LenProperties
  <2>2. QED
    BY <2>1, FS_Interval DEF Candidates
<1>2. \A a, b \in C : <<a, b>> \in R <=> Before(entries, terms, a, b)
  BY <1>1 DEF Betters
<1>3. Linear(R, DOMAIN entries)
  BY SearchOrders
<1> HIDE DEF C, R
<1>4. IsFiniteSet(C) /\ Linear(R, C)
  BY <1>1, <1>3, FS_Subset, LinearPart
<1>5. \A y \in C : Ahead(R, C, y) = {m \in C : Before(entries, terms, m, y)}
  BY <1>2 DEF Ahead
<1>6. Kept(entries, terms, limit) = first
  BY <1>5 DEF Kept, C
<1>7. n \in C /\ ~(Cardinality(Ahead(R, C, n)) < limit)
  BY <1>5 DEF Kept, C
<1>8. Cardinality(first) = limit /\ \A y \in first : <<y, n>> \in R
  BY <1>4, <1>7, FirstOf
<1>9. \A y \in first : y \in C
  OBVIOUS
<1> HIDE DEF first
<1>10. QED
  BY <1>2, <1>6, <1>7, <1>8, <1>9

-----------------------------------------------------------------------------
(* The log, and what a command reads of it                                     *)

LEMMA ArgIsWritten ==
  ASSUME Filled, command.phase \in {"reading", "looking", "completing"}, NEW name
  PROVE  Written(Arg(name))
<1> DEFINE places == {i \in DOMAIN command.args : Skill.args[i].name = name}
<1>1. Written(NoValue)
  BY DEF NoValue, Value, Written
<1>2. CASE places = {}
  BY <1>1, <1>2 DEF Arg, Argument
<1>3. CASE places # {}
  <2>1. (CHOOSE i \in places : TRUE) \in DOMAIN command.args
    BY <1>3
  <2>2. Arg(name) = command.args[CHOOSE i \in places : TRUE]
    BY <1>3 DEF Arg, Argument
  <2>3. QED
    BY <2>1, <2>2 DEF Filled
<1>4. QED
  BY <1>2, <1>3

LEMMA CountIsSome ==
  ASSUME Filled, CommandIn("reading")
  PROVE  Count \in Nat \ {0}
<1> DEFINE count == Arg("count")
<1>1. Written(count)
  BY ArgIsWritten DEF CommandIn
<1>2. count.type = "integer" => Amounts[count.raw[1]] \in Int
  BY <1>1, SkillsAssumption DEF Written
<1>3. MaxCount \in Nat \ {0} /\ DefaultCount \in 1..MaxCount
  BY CommandsAssumption
<1> HIDE DEF count
<1>4. QED
  BY <1>2, <1>3 DEF Count, count

LEMMA NewestIsOfLog ==
  ASSUME NEW S, NEW l \in Seq(S), NEW count \in Nat \ {0}
  PROVE  \A n \in DOMAIN Newest(l, count) : Newest(l, count)[n] \in DOMAIN l
<1>1. Len(l) \in Nat /\ DOMAIN l = 1..Len(l)
  BY LenProperties
<1>2. QED
  BY <1>1 DEF Newest

LEMMA QueryIs ==
  ASSUME Filled, command.phase \in {"reading", "looking", "completing"}
  PROVE  Query \in Seq(Words)
<1>1. Arg("query").raw \in Seq(Words)
  BY ArgIsWritten DEF Written
<1>2. <<>> \in Seq(Words)
  OBVIOUS
<1>3. QED
  BY <1>1, <1>2 DEF Query

LEMMA SearchIsOfLog ==
  ASSUME NEW words, NEW l \in Seq(Messages(words)), NEW query \in Seq(Words), NEW limit
  PROVE  \A n \in DOMAIN Search(l, query, limit) : Search(l, query, limit)[n] \in DOMAIN l
<1>1. Len(query) \in Nat /\ DOMAIN query = 1..Len(query)
  BY LenProperties
<1> DEFINE seq == Search(l, query, limit)
           kept == Kept(l, Terms(query), limit)
<1>2. Results(l, Terms(query), limit, seq)
  BY <1>1, SearchGives
<1> HIDE DEF seq
<1>3. seq \in [1..Cardinality(kept) -> kept]
  BY <1>2 DEF Results
<1>4. kept \subseteq DOMAIN l
  BY DEF Kept, Candidates
<1> HIDE DEF kept
<1>5. \A n \in DOMAIN seq : seq[n] \in DOMAIN l
  BY <1>3, <1>4
<1>6. QED
  BY <1>5 DEF seq

LogTyped ==
  /\ log \in Seq(Messages(Entries))
  /\ \A n \in DOMAIN log : log[n].ts <= Len(log)
  /\ Known \/ log = <<>>

ReadOfLog ==
  /\ \A n \in DOMAIN command.recent : command.recent[n] \in DOMAIN log
  /\ \A n \in DOMAIN command.matches : command.matches[n] \in DOMAIN log
  /\ CommandIn("looking") /\ Uses("message_search") /\ "failed" \notin command.told =>
       command.matches = Search(log, Query, SearchLimit)
  /\ command.phase \in {"none", "checking", "reading", "looking"} => command.film = <<>>
  /\ CommandIn("completing") /\ command.film # <<>> => Pickings(command.film, Arg("title").raw)

LogInv == LogTyped /\ (~InPhase("idle") => log = <<>>) /\ ReadOfLog

LEMMA LogGrows ==
  ASSUME LogTyped, total \in Nat, total' = total + 1,
         NEW words, NEW search \in BOOLEAN, NEW ts \in 0..total', Logs(words, search, ts)
  PROVE  LogTyped'
<1> DEFINE m == [words |-> words, search |-> search, ts |-> ts]
<1>1. CASE log' = <<>>
  BY <1>1 DEF LogTyped
<1>2. CASE Len(log) = total /\ words \in Entries /\ log' = Append(log, m)
  <2>1. m \in Messages(Entries) /\ m.ts = ts
    BY <1>2 DEF Messages
  <2> HIDE DEF m
  <2>2. /\ log \in Seq(Messages(Entries)) /\ \A n \in DOMAIN log : log[n].ts <= Len(log) /\ log[n].ts \in Nat
        /\ DOMAIN log = 1..Len(log)
    <3>1. log \in Seq(Messages(Entries)) /\ \A n \in DOMAIN log : log[n].ts <= Len(log)
      BY DEF LogTyped
    <3>2. DOMAIN log = 1..Len(log) /\ \A n \in DOMAIN log : log[n] \in Messages(Entries)
      BY <3>1, LenProperties, ElementOfSeq
    <3>3. QED
      BY <3>1, <3>2 DEF Messages
  <2>3. /\ log' \in Seq(Messages(Entries)) /\ Len(log') = Len(log) + 1 /\ log'[Len(log) + 1] = m
        /\ \A n \in 1..Len(log) : log'[n] = log[n]
        /\ DOMAIN log' = 1..(Len(log) + 1)
    BY <1>2, <2>1, <2>2, AppendProperties
  <2>4. ASSUME NEW n \in DOMAIN log'
        PROVE  log'[n].ts <= Len(log')
    BY <1>2, <2>1, <2>2, <2>3
  <2>5. QED
    BY <1>2, <2>3, <2>4 DEF LogTyped, Known
<1>3. QED
  BY <1>1, <1>2 DEF Logs, Known

LEMMA NothingRead ==
  ASSUME command' = NoCommand
  PROVE  ReadOfLog'
  BY NoCommandIs DEF ReadOfLog, CommandIn

LEMMA SameRead ==
  ASSUME ReadOfLog, UNCHANGED <<registry, log, command>>
  PROVE  ReadOfLog'
  BY DEF ReadOfLog, CommandIn, Uses, Skill, Query, IsText, Arg

(* Between two replies, with no command: the log may grow. *)
LEMMA ForgottenLog ==
  ASSUME log' = <<>>
  PROVE  LogTyped'
  BY DEF LogTyped

LEMMA ReadStepKeeps ==
  ASSUME CommandInv, LogInv, CommandStep, UNCHANGED log
  PROVE  command' = NoCommand \/ ReadOfLog'
<1>1. /\ DOMAIN command = CommandFields /\ Running /\ Filled /\ Pictured /\ ReadOfLog
      /\ log \in Seq(Messages(Entries))
  BY DEF CommandInv, Running, LogInv, LogTyped
<1>2. CASE GiveCommand
  BY <1>2, GivenIs DEF ReadOfLog, CommandIn
<1>3. CASE CheckCommand
  BY <1>1, <1>3, CheckedIs DEF ReadOfLog, CommandIn
<1>4. CASE ReadRoom
  <2>1. CommandIn("reading") /\ command.film = <<>>
    BY <1>1, <1>4 DEF ReadOfLog, ReadRoom, CommandIn, Running
  <2>2. /\ command'.film = <<>> /\ UNCHANGED registry
        /\ command'.name = command.name /\ command'.args = command.args
        /\ \/ /\ command'.phase = "replying"
              /\ command'.recent = command.recent /\ command'.matches = command.matches
           \/ command'.phase = "looking" /\ ReadWell
    BY <1>1, <1>4, <2>1, ReadIs
  <2>3. (Uses("message_search"))' = Uses("message_search") /\ Query' = Query
    BY <2>2 DEF Uses, Skill, Query, IsText, Arg
  <2>4. CASE ReadWell
    <3>1. \A n \in DOMAIN Search(log, Query, SearchLimit) : Search(log, Query, SearchLimit)[n] \in DOMAIN log
      <4>1. Query \in Seq(Words)
        BY <1>1, <2>1, QueryIs DEF CommandIn
      <4>2. QED
        BY <1>1, <4>1, SearchIsOfLog
    <3>2. \A n \in DOMAIN Newest(log, Count) : Newest(log, Count)[n] \in DOMAIN log
      BY <1>1, <2>1, CountIsSome, NewestIsOfLog
    <3>3. DOMAIN <<>> = {}
      BY NoTable
    <3>4. /\ \A n \in DOMAIN command'.recent : command'.recent[n] \in DOMAIN log
          /\ \A n \in DOMAIN command'.matches : command'.matches[n] \in DOMAIN log
      BY <2>4, <3>1, <3>2, <3>3 DEF ReadWell
    <3>5. Uses("message_search") /\ "failed" \notin command'.told =>
            command'.matches = Search(log, Query, SearchLimit)
      BY <2>4 DEF ReadWell
    <3>6. QED
      BY <2>2, <2>3, <3>4, <3>5 DEF ReadOfLog, CommandIn
  <2>5. CASE /\ command'.phase = "replying"
             /\ command'.recent = command.recent /\ command'.matches = command.matches
    BY <1>1, <2>2, <2>5 DEF ReadOfLog, CommandIn
  <2>6. QED
    BY <2>2, <2>4, <2>5
<1>5. CASE LookUp
  <2>1. CommandIn("looking")
    BY <1>5 DEF LookUp
  <2>2. command.told \intersect {"photos", "posters", "title"} = {}
    BY <1>1, <2>1 DEF Pictured
  <2>3. /\ command'.phase = "completing"
        /\ command'.recent = command.recent /\ command'.matches = command.matches
        /\ command'.name = command.name /\ command'.args = command.args /\ UNCHANGED registry
        /\ command'.film = <<>> \/ Pickings(command'.film, Arg("title").raw)
    BY <1>1, <1>5, <2>2, LookedUpIs
  <2>4. (Arg("title"))' = Arg("title")
    BY <2>3 DEF Arg, Skill
  <2>5. QED
    BY <1>1, <2>3, <2>4 DEF ReadOfLog, CommandIn
<1>6. CASE Complete
  BY <1>1, <1>6, CompletedIs DEF ReadOfLog, CommandIn
<1>7. CASE AnswerCommand
  BY <1>7, AnsweredIs
<1>8. QED
  BY <1>2, <1>3, <1>4, <1>5, <1>6, <1>7 DEF CommandStep

LEMMA LogSteps ==
  ASSUME RoomInv, CommandInv, LogInv, [Next]_vars
  PROVE  LogInv'
<1>1. total \in Nat /\ LogTyped /\ ReadOfLog /\ Running
  BY MemoryAssumption DEF RoomInv, MemoryInv, Types, LogInv, CommandInv
<1>2. Free => command = NoCommand /\ InPhase("idle")
  BY <1>1 DEF Free, Running
<1>3. CASE Started
  <2>1. UNCHANGED <<memoryVars, log, command>> /\ command = NoCommand
    BY <1>1, <1>3 DEF Started, LoadSkills, Running, Ready, CommandIn
  <2>2. ReadOfLog'
    BY <2>1, NothingRead
  <2>3. QED
    BY <2>1, <2>2 DEF LogInv, LogTyped, Known, InPhase, memoryVars
<1>4. CASE MessageLogged
  <2>1. total' = total + 1 /\ reply' = reply /\ InPhase("idle") /\ command' = NoCommand
    BY <1>2, <1>4 DEF MessageLogged, LogQuietly
  <2>2. PICK words \in Entries, late \in {0, 2} :
          Logs(words, FALSE, IF late < total THEN total' - late ELSE total')
    BY <1>4 DEF MessageLogged
  <2>3. (IF late < total THEN total' - late ELSE total') \in 0..total'
    BY <1>1, <2>1
  <2>4. LogTyped'
    BY <1>1, <2>1, <2>2, <2>3, LogGrows
  <2>5. QED
    BY <2>1, <2>4, NothingRead DEF LogInv, InPhase
<1>5. CASE ReplyBegins
  BY <1>2, <1>5, ForgottenLog, NothingRead DEF ReplyBegins, LogInv
<1>6. CASE ReplyGathered \/ ReplyGrounded \/ ReplyEnds
  <2>1. ~InPhase("idle") /\ UNCHANGED <<registry, log, command>>
    BY <1>6 DEF ReplyGathered, ReplyGrounded, ReplyEnds, LoadLog, UseSummary, RefreshSummary, HoldReply,
                EndReply, InPhase, commandVars
  <2>2. log' = <<>>
    BY <2>1 DEF LogInv
  <2>3. QED
    BY <1>1, <2>1, <2>2, ForgottenLog, SameRead DEF LogInv
<1>7. CASE CommandBegins \/ CommandGoesOn
  <2>1. CommandStep /\ UNCHANGED <<memoryVars, log>> /\ (CommandBegins \/ ~AnswerCommand)
    BY <1>7 DEF CommandBegins, CommandGoesOn, CommandStep, GiveCommand, CheckCommand, ReadRoom, LookUp,
                Complete, AnswerCommand, CommandIn
  <2>2. ReadOfLog'
    BY <2>1, ReadStepKeeps, NothingRead
  <2>3. QED
    BY <1>1, <2>1, <2>2 DEF LogInv, LogTyped, Known, InPhase, memoryVars
<1>8. CASE CommandEnds
  <2>1. /\ total' = total + 1 /\ reply' = reply /\ command' = NoCommand
        /\ Logs(CommandWords, command.name = "search", total')
    BY <1>8 DEF CommandEnds, AnswerCommand
  <2>2. total' \in 0..total' /\ (command.name = "search") \in BOOLEAN
    BY <1>1, <2>1
  <2>3. PICK ts, words, search : ts = total' /\ words = CommandWords /\ search = (command.name = "search")
    OBVIOUS
  <2>4. Logs(words, search, ts)
    BY <2>1, <2>3
  <2>5. LogTyped'
    BY <1>1, <2>1, <2>2, <2>3, <2>4, LogGrows
  <2>6. InPhase("idle")
    BY <1>8, <1>1 DEF RoomInv, OneAtATime, CommandEnds, AnswerCommand, CommandIn
  <2>7. QED
    BY <2>1, <2>5, <2>6, NothingRead DEF LogInv, InPhase
<1>9. CASE UNCHANGED vars
  BY <1>9, SameRead DEF vars, memoryVars, commandVars, LogInv, LogTyped, Known, InPhase
<1>10. QED
  BY <1>3, <1>4, <1>5, <1>6, <1>7, <1>8, <1>9 DEF Next

LEMMA LogInvariant == Spec => []LogInv
<1>1. Init => LogInv
  <2>1. SUFFICES ASSUME Init
                 PROVE  LogInv
    OBVIOUS
  <2>2. log = <<>> /\ command = NoCommand
    BY <2>1 DEF Init, CommandsInit
  <2>3. LogTyped
    BY <2>2 DEF LogTyped
  <2>4. ReadOfLog
    BY <2>2, NoCommandIs DEF ReadOfLog, CommandIn
  <2>5. QED
    BY <2>2, <2>3, <2>4 DEF LogInv
<1>2. RoomInv /\ CommandInv /\ LogInv /\ [Next]_vars => LogInv'
  BY LogSteps
<1>3. QED
  BY <1>1, <1>2, RoomInvariant, CommandInvariant, PTL DEF Spec

-----------------------------------------------------------------------------
(* What is in place                                                            *)

(* A window's history begins before where it is settled. *)
LEMMA SplitInOrder ==
  ASSUME NEW n \in Nat, NEW loaded \in Nat
  PROVE  /\ Start(n, loaded) \in 0..loaded /\ StableEnd(n, loaded) \in 0..loaded
         /\ Start(n, loaded) <= StableEnd(n, loaded)
<1>1. Start(n, loaded) \in 0..loaded /\ StableEnd(n, loaded) \in 0..loaded
  BY SplitInWindow
<1>2. Less(n, HistoryMin) \in Nat /\ Less(n, loaded) \in Nat /\ Less(n, HistoryMin) <= n
  BY HistoryAssumption DEF Less
<1> DEFINE a == StepDown(Less(n, HistoryMin))
           b == StepDown(n)
           c == Less(n, loaded)
<1>3. a \in Nat /\ b \in Nat /\ c \in Nat /\ a <= b
  BY <1>2, StepDownBounds, StepDownRises
<1>4. Start(n, loaded) = Lesser(Less(a, c), loaded) /\ StableEnd(n, loaded) = Lesser(Less(b, c), loaded)
  BY DEF Start, StableEnd
<1> HIDE DEF a, b, c
<1>5. QED
  BY <1>1, <1>3, <1>4 DEF Lesser, Less

Placed ==
  /\ faults \in 0..MaxFaults
  /\ reply.before <= reply.start /\ reply.start <= reply.stable /\ reply.stable <= total
  /\ summary = None \/ summary.from \in 1..summary.through
  /\ ~InPhase("loading") => topic = NoTopic

LEMMA PlacedSteps ==
  ASSUME RoomInv, Placed, [Next]_vars
  PROVE  Placed'
<1>1. /\ total \in Nat /\ faults \in Nat /\ summary \in Notes /\ reply \in Replies
      /\ reply.before \in Nat /\ reply.start \in Nat /\ reply.stable \in Nat
  BY MemoryAssumption DEF RoomInv, MemoryInv, Types, Replies
<1>2. CASE UNCHANGED <<memoryVars, topic>>
  BY <1>2 DEF Placed, memoryVars, InPhase
<1>3. ASSUME total' >= total, total' \in Nat, UNCHANGED <<summary, faults>>,
             reply' = reply \/ (reply'.before = 0 /\ reply'.start = 0 /\ reply'.stable = 0)
      PROVE  /\ faults' \in 0..MaxFaults
             /\ reply'.before <= reply'.start /\ reply'.start <= reply'.stable /\ reply'.stable <= total'
             /\ summary' = None \/ summary'.from \in 1..summary'.through
  BY <1>1, <1>3 DEF Placed
<1>4. CASE MessageLogged
  <2>1. total' = total + 1 /\ UNCHANGED <<summary, faults, reply, topic>>
    BY <1>4 DEF MessageLogged, LogQuietly
  <2>2. QED
    BY <1>1, <1>3, <2>1 DEF Placed, InPhase
<1>5. CASE ReplyBegins
  <2>1. /\ UNCHANGED <<total, summary, faults, topic>> /\ InPhase("idle")
        /\ \E kind \in Kinds, thread \in SUBSET Nat :
             reply' = [NoReply EXCEPT !.phase = "gathering", !.kind = kind, !.thread = thread]
    <3>1. \A n \in {1, total} \ {0} : {n} \in SUBSET Nat
      BY <1>1
    <3>2. QED
      BY <1>5, <3>1 DEF ReplyBegins, BeginReply
  <2>2. reply'.before = 0 /\ reply'.start = 0 /\ reply'.stable = 0 /\ reply'.phase = "gathering"
    BY <2>1 DEF NoReply
  <2>3. QED
    BY <1>1, <1>3, <2>1, <2>2 DEF Placed, InPhase
<1>6. CASE ReplyGathered
  <2>1. /\ UNCHANGED <<total, summary, faults>> /\ reply' = [reply EXCEPT !.phase = "loading"]
    BY <1>6 DEF ReplyGathered, Goes
  <2>2. /\ reply'.before = reply.before /\ reply'.start = reply.start /\ reply'.stable = reply.stable
        /\ reply'.phase = "loading"
    BY <1>1, <2>1 DEF Replies
  <2>3. QED
    BY <2>1, <2>2 DEF Placed, InPhase
<1>7. CASE ReplyEnds
  <2>1. total' \in total..MaxTotal /\ UNCHANGED <<summary, faults>> /\ reply' = NoReply /\ topic' = NoTopic
    BY <1>7, AnsweredGrows DEF ReplyEnds, HoldReply, EndReply, RoomInv
  <2>2. NoReply.before = 0 /\ NoReply.start = 0 /\ NoReply.stable = 0 /\ NoReply.phase = "idle"
    BY DEF NoReply
  <2>3. QED
    BY <1>1, <1>3, <2>1, <2>2, MemoryAssumption DEF Placed, InPhase
<1>8. CASE LoadLog /\ topic' = NoTopic
  <2>1. PICK loaded \in {Lesser(total, Window), 0}, counts \in BOOLEAN :
          LET count == IF counts THEN total ELSE loaded
              before == total - loaded
              clean == loaded = Lesser(total, Window) /\ counts
          IN /\ reply' = [reply EXCEPT !.before = before, !.clean = clean,
                            !.phase = IF reply.kind = "greeting" THEN "completing" ELSE "noting",
                            !.start = before + Start(count, loaded),
                            !.stable = before + StableEnd(count, loaded)]
             /\ IF clean THEN UNCHANGED faults ELSE Fault
    BY <1>8 DEF LoadLog
  <2> DEFINE count == IF counts THEN total ELSE loaded
             before == total - loaded
             start == before + Start(count, loaded)
             stable == before + StableEnd(count, loaded)
  <2>2. loaded \in 0..total /\ count \in Nat /\ before \in Nat
    BY <1>1, HistoryAssumption DEF Lesser
  <2>3. Start(count, loaded) \in 0..loaded /\ StableEnd(count, loaded) \in 0..loaded
        /\ Start(count, loaded) <= StableEnd(count, loaded)
    <3>1. loaded \in Nat
      BY <1>1, <2>2
    <3> HIDE DEF count
    <3>2. QED
      BY <2>2, <3>1, SplitInOrder
  <2>4. before <= start /\ start <= stable /\ stable <= total
    BY <1>1, <2>2, <2>3
  <2>5. /\ reply'.before = before /\ reply'.start = start /\ reply'.stable = stable
        /\ reply'.phase \in {"completing", "noting"}
    <3>1. PICK clean, phase : /\ phase \in {"completing", "noting"}
                              /\ reply' = [reply EXCEPT !.before = before, !.clean = clean, !.phase = phase,
                                                        !.start = start, !.stable = stable]
      BY <2>1
    <3> HIDE DEF before, start, stable
    <3>2. QED
      BY <1>1, <3>1 DEF Replies
  <2>6. faults' \in 0..MaxFaults
    <3>1. UNCHANGED faults \/ Fault
      BY <2>1
    <3>2. QED
      BY <1>1, <3>1, MemoryAssumption DEF Placed, Fault
  <2>7. UNCHANGED <<total, summary>>
    BY <1>8 DEF LoadLog
  <2> HIDE DEF before, start, stable
  <2>8. QED
    BY <1>8, <2>4, <2>5, <2>6, <2>7 DEF Placed, InPhase
<1>9. CASE UseSummary /\ topic' = NoTopic
  <2>1. /\ UNCHANGED <<total, summary, faults>>
        /\ reply'.before = reply.before /\ reply'.start = reply.start /\ reply'.stable = reply.stable
    BY <1>1, <1>9 DEF UseSummary, Goes, Replies
  <2>2. QED
    BY <1>9, <2>1 DEF Placed
<1>10. CASE RefreshSummary /\ topic' = NoTopic
  <2>1. /\ UNCHANGED total /\ (UNCHANGED faults \/ Fault) /\ (UNCHANGED summary \/ summary' = Refreshed)
        /\ InPhase("summarizing")
        /\ \/ reply' = [reply EXCEPT !.phase = "completing", !.notes = Refreshed]
           \/ reply' = [reply EXCEPT !.phase = "completing", !.notes = summary, !.clean = FALSE]
    BY <1>10 DEF RefreshSummary
  <2>2. reply'.before = reply.before /\ reply'.start = reply.start /\ reply'.stable = reply.stable
    BY <1>1, <2>1 DEF Replies
  <2>3. reply.start > reply.before
    BY <2>1 DEF RoomInv, MemoryInv, FromWindow, InPhase
  <2>4. Refreshed.from \in 1..Refreshed.through
    BY <1>1, <2>3 DEF Refreshed, Through
  <2>5. faults' \in 0..MaxFaults
    BY <1>1, <2>1, MemoryAssumption DEF Placed, Fault
  <2>6. QED
    BY <1>10, <2>1, <2>2, <2>4, <2>5 DEF Placed
<1>11. CASE CommandEnds
  <2>1. total' = total + 1 /\ UNCHANGED <<summary, faults, reply, topic>>
    BY <1>11 DEF CommandEnds
  <2>2. QED
    BY <1>1, <1>3, <2>1 DEF Placed, InPhase
<1>12. QED
  BY <1>2, <1>4, <1>5, <1>6, <1>7, <1>8, <1>9, <1>10, <1>11
  DEF Next, vars, Started, CommandBegins, CommandGoesOn, ReplyGrounded

LEMMA PlacedInvariant == Spec => []Placed
<1>1. Init => Placed
  <2>1. ASSUME Init
        PROVE  Placed
    <3>1. total = 0 /\ faults = 0 /\ summary = None /\ reply = NoReply /\ topic = NoTopic
      BY <2>1 DEF Init, MemoryInit
    <3>2. NoReply.before = 0 /\ NoReply.start = 0 /\ NoReply.stable = 0
      BY DEF NoReply
    <3>3. QED
      BY <3>1, <3>2, MemoryAssumption DEF Placed
  <2>2. QED
    BY <2>1
<1>2. RoomInv /\ Placed /\ [Next]_vars => Placed'
  BY PlacedSteps
<1>3. QED
  BY <1>1, <1>2, RoomInvariant, PTL DEF Spec

(* A reply that is made, a command that is run and what either is given fit    *)
(* together, for any window, whatever files there are and whatever is said     *)
(* (src/src/handler.rs:780-1023).                                              *)
THEOREM AnswersAreTyped == Spec => []TypeOK
<1>1. ASSUME RoomInv, CommandInv, LogInv, Placed
      PROVE  TypeOK
  <2>1. MemoryOK
    BY <1>1 DEF RoomInv, MemoryInv, Types, Replies, Placed, MemoryOK
  <2>2. CommandsOK
    BY <1>1 DEF CommandInv, Running, LogInv, ReadOfLog, CommandsOK, Range
  <2>3. QED
    BY <1>1, <2>1, <2>2 DEF LogInv, LogTyped, Placed, TypeOK
<1>2. QED
  BY <1>1, RoomInvariant, CommandInvariant, LogInvariant, PlacedInvariant, PTL

-----------------------------------------------------------------------------
(* The messages that match best                                                *)

LEMMA HigherIsMore ==
  ASSUME NEW a \in Nat, NEW b \in Nat, NEW k \in Nat, a > b
  PROVE  a * k >= b * k + k
<1>1. PICK d \in Nat : a = b + 1 + d
  <2>1. a - b - 1 \in Nat /\ a = b + 1 + (a - b - 1)
    OBVIOUS
  <2>2. QED
    BY <2>1
<1>2. a * k = b * k + k + d * k
  BY <1>1
<1>3. d * k \in Nat /\ b * k \in Nat
  OBVIOUS
<1>4. QED
  BY <1>2, <1>3

LEMMA RowsScore ==
  ASSUME NEW query \in Seq(Words), NEW message \in Messages(Entries),
         NEW i \in DOMAIN Terms(query), InRow(message, Terms(query)[i])
  PROVE  Score(message, Terms(query)) > 0
<1>1. Len(query) \in Nat /\ DOMAIN query = 1..Len(query) /\ \A j \in DOMAIN query : query[j] \in Words
  BY LenProperties, ElementOfSeq
<1> DEFINE terms == Terms(query)
           W == Lowered(query, Len(query))
<1>2. terms \in Seq(W)
  BY <1>1, TermsAre
<1> HIDE DEF terms, W
<1>3. PICK j \in 1..Len(query) : terms[i] = LowerWord[query[j]]
  <2>1. i \in DOMAIN terms
    BY DEF terms
  <2>2. terms[i] \in W
    BY <1>2, <2>1, ElementOfSeq, LenProperties
  <2>3. QED
    BY <2>2 DEF W, Lowered
<1>4. PICK row \in message.words : LowerRow[row] = terms[i]
  BY DEF InRow, terms
<1>5. row \in DOMAIN LowerWord
  <2>1. message.words \in Entries
    BY DEF Messages
  <2>2. QED
    BY <1>4, <2>1, AnswersAssumption
<1>6. query[j] \in DOMAIN LowerWord
  BY <1>1, CommandsAssumption
<1>7. LowerWord[row] = terms[i]
  BY <1>3, <1>4, <1>5, <1>6, LogSearchAssumption
<1>8. i \in DOMAIN terms
  BY DEF terms
<1>9. Score(message, terms) > 0
  BY <1>2, <1>4, <1>7, <1>8, ScoresSome
<1>10. QED
  BY <1>9 DEF terms

LEMMA SearchedIsBest ==
  ASSUME LogTyped, Query \in Seq(Words), command.matches = Search(log, Query, SearchLimit)
  PROVE  BestMessages
<1> DEFINE terms == Terms(Query)
           found == Range(command.matches)
           Rank(n) == Score(log[n], terms) * (Len(log) + 1) + log[n].ts
           kept == Kept(log, terms, SearchLimit)
           seq == command.matches
<1>1. /\ Len(Query) \in Nat /\ DOMAIN Query = 1..Len(Query)
      /\ log \in Seq(Messages(Entries)) /\ Len(log) \in Nat /\ DOMAIN log = 1..Len(log)
      /\ \A n \in DOMAIN log : log[n] \in Messages(Entries) /\ log[n].ts \in 0..Len(log)
      /\ SearchLimit \in Nat
  <2>1. log \in Seq(Messages(Entries)) /\ \A n \in DOMAIN log : log[n].ts <= Len(log)
    BY DEF LogTyped
  <2>2. Len(log) \in Nat /\ DOMAIN log = 1..Len(log) /\ \A n \in DOMAIN log : log[n] \in Messages(Entries)
    BY <2>1, LenProperties, ElementOfSeq
  <2>3. \A n \in DOMAIN log : log[n].ts \in Nat
    BY <2>2 DEF Messages
  <2>4. Len(Query) \in Nat /\ DOMAIN Query = 1..Len(Query)
    BY LenProperties
  <2>5. QED
    BY <2>1, <2>2, <2>3, <2>4, CommandsAssumption
<1>2. Results(log, terms, SearchLimit, seq)
  <2>1. Results(log, Terms(Query), SearchLimit, Search(log, Query, SearchLimit))
    BY <1>1, SearchGives
  <2>2. QED
    BY <2>1
<1>3. terms \in Seq(Lowered(Query, Len(Query)))
  BY <1>1, TermsAre
<1>4. /\ seq \in [1..Cardinality(kept) -> kept] /\ DOMAIN seq = 1..Cardinality(kept)
      /\ \A n \in kept : \E i \in 1..Cardinality(kept) : seq[i] = n
      /\ \A i, j \in 1..Cardinality(kept) : i < j => log[seq[i]].ts <= log[seq[j]].ts
  BY <1>2 DEF Results
<1>5. kept \subseteq Candidates(log, terms)
  BY DEF Kept
<1>6. \A n \in DOMAIN log : Score(log[n], terms) \in Nat
  BY <1>3, ScoreCounts
<1>7. ASSUME NEW n \in DOMAIN log, ~log[n].search, NEW i \in DOMAIN terms, InRow(log[n], terms[i])
      PROVE  n \in Candidates(log, terms)
  <2>1. Score(log[n], terms) > 0
    BY <1>1, <1>7, RowsScore
  <2>2. QED
    BY <1>7, <2>1 DEF Candidates
<1>8. ASSUME NEW n \in Candidates(log, terms), n \notin kept
      PROVE  /\ Cardinality(kept) = SearchLimit
             /\ \A m \in kept : Before(log, terms, m, n)
  BY <1>1, <1>3, <1>8, KeptAreBest
<1> HIDE DEF terms, kept, seq
<1>9. found = kept
  BY <1>4 DEF Range, seq
<1>10. \A n \in Candidates(log, terms) : n \in DOMAIN log /\ Score(log[n], terms) > 0 /\ ~log[n].search
  BY DEF Candidates
<1>11. ASSUME NEW n \in DOMAIN log, NEW m \in DOMAIN log, Before(log, terms, m, n)
       PROVE  Rank(m) >= Rank(n)
  <2> DEFINE a == Score(log[m], terms)
             b == Score(log[n], terms)
             k == Len(log) + 1
  <2>1. a \in Nat /\ b \in Nat /\ k \in Nat /\ log[m].ts \in Nat /\ log[n].ts \in 0..(k - 1)
    BY <1>1, <1>6
  <2>2. a > b \/ (a = b /\ log[m].ts >= log[n].ts)
    BY <1>11, <2>1 DEF Before
  <2> HIDE DEF a, b, k
  <2>3. a * k \in Nat /\ b * k \in Nat
    BY <2>1
  <2>4. CASE a > b
    <3>1. a * k >= b * k + k
      BY <2>1, <2>4, HigherIsMore
    <3> DEFINE x == a * k
               y == b * k
    <3>2. x \in Nat /\ y \in Nat /\ x >= y + k
      BY <2>3, <3>1
    <3> HIDE DEF x, y
    <3>3. x + log[m].ts >= y + log[n].ts
      BY <2>1, <3>2
    <3>4. QED
      BY <3>3 DEF a, b, k, x, y
  <2>5. CASE a = b /\ log[m].ts >= log[n].ts
    <3>1. a * k + log[m].ts >= b * k + log[n].ts
      BY <2>1, <2>3, <2>5
    <3>2. QED
      BY <3>1 DEF a, b, k
  <2>6. QED
    BY <2>2, <2>4, <2>5
<1>12. \A n \in found : Score(log[n], terms) > 0 /\ ~log[n].search
  BY <1>5, <1>9, <1>10
<1>13. ASSUME NEW n \in DOMAIN log \ found
       PROVE  log[n].search \/ (\A i \in DOMAIN terms : ~InRow(log[n], terms[i]))
                \/ (Cardinality(found) = SearchLimit /\ \A m \in found : Rank(m) >= Rank(n))
  <2>1. SUFFICES ASSUME ~log[n].search, NEW i \in DOMAIN terms, InRow(log[n], terms[i])
                 PROVE  Cardinality(found) = SearchLimit /\ \A m \in found : Rank(m) >= Rank(n)
    OBVIOUS
  <2>2. n \in Candidates(log, terms) /\ n \notin kept
    BY <1>7, <1>9, <1>13, <2>1
  <2>3. Cardinality(kept) = SearchLimit /\ \A m \in kept : Before(log, terms, m, n)
    BY <1>8, <2>2
  <2> HIDE DEF Rank
  <2>4. QED
    BY <1>5, <1>9, <1>10, <1>11, <2>3
<1>14. \A i, j \in DOMAIN seq : i < j => log[seq[i]].ts <= log[seq[j]].ts
  BY <1>4
<1>15. QED
  BY <1>12, <1>13, <1>14 DEF BestMessages, terms, seq

-----------------------------------------------------------------------------
(* The film that is meant                                                      *)

(* Films *)

LEMMA LeastIs ==
  ASSUME NEW S \in SUBSET Nat, S # {}
  PROVE  Least(S) \in S /\ \A n \in S : Least(S) <= n
<1>1. \E n \in S : \A other \in S : n <= other
  BY LeastOfNat
<1>2. QED
  BY <1>1 DEF Least

LEMMA SiteFinds ==
  ASSUME NEW title
  PROVE  SiteSearch(title) \in Seq(Rows)
<1>1. <<>> \in Seq(Rows)
  OBVIOUS
<1>2. QED
  BY <1>1, CommandsAssumption DEF SiteSearch

Exactly(results, title, year) ==
  {i \in DOMAIN results : (year = NoYear \/ results[i].year = year) /\ results[i].title = title}

LEMMA MatchesAre ==
  ASSUME NEW results \in Seq(Rows), NEW title, NEW year
  PROVE  LET m == MatchesOf(results, title, year)
         IN /\ m.candidates \subseteq DOMAIN results
            /\ IF Exactly(results, title, year) # {}
               THEN m.exact /\ m.candidates = Exactly(results, title, year)
               ELSE ~m.exact
            /\ year = NoYear => (m.candidates = {} <=> results = <<>>)
<1> DEFINE inYear == {i \in DOMAIN results : year = NoYear \/ results[i].year = year}
           exact == {i \in inYear : results[i].title = title}
           scored == {i \in inYear : results[i].scored}
           m == MatchesOf(results, title, year)
<1>1. Len(results) \in Nat /\ DOMAIN results = 1..Len(results) /\ (results = <<>> <=> Len(results) = 0)
  BY LenProperties, EmptySeq
<1>2. exact = Exactly(results, title, year)
  BY DEF Exactly
<1>3. inYear \in SUBSET Nat /\ inYear \subseteq DOMAIN results /\ (year = NoYear => inYear = DOMAIN results)
  BY <1>1
<1>4. exact \subseteq inYear /\ scored \in SUBSET Nat /\ scored \subseteq inYear
  BY <1>3
<1>5. m = IF exact # {} THEN [candidates |-> exact, exact |-> TRUE]
          ELSE [candidates |-> IF scored # {} THEN {Least(scored)}
                               ELSE IF inYear # {} THEN {Least(inYear)} ELSE {},
                exact |-> FALSE]
  BY DEF MatchesOf
<1> HIDE DEF inYear, exact, scored, m
<1>6. scored # {} => Least(scored) \in inYear
  BY <1>4, LeastIs
<1>7. inYear # {} => Least(inYear) \in inYear
  BY <1>3, LeastIs
<1>8. ASSUME exact # {}
      PROVE  m.exact /\ m.candidates = exact
  BY <1>5, <1>8
<1>9. ASSUME exact = {}
      PROVE  /\ ~m.exact /\ m.candidates \subseteq inYear
             /\ m.candidates = {} <=> inYear = {}
  <2>1. /\ ~m.exact
        /\ m.candidates = IF scored # {} THEN {Least(scored)} ELSE IF inYear # {} THEN {Least(inYear)} ELSE {}
    BY <1>5, <1>9
  <2>2. QED
    BY <1>4, <1>6, <1>7, <2>1
<1>10. m.candidates \subseteq DOMAIN results
  BY <1>3, <1>4, <1>8, <1>9
<1>11. m.candidates = {} <=> inYear = {}
  BY <1>4, <1>8, <1>9
<1>12. year = NoYear => (m.candidates = {} <=> results = <<>>)
  <2>1. DOMAIN results = {} <=> results = <<>>
    <3>1. Len(results) # 0 => 1 \in DOMAIN results
      BY <1>1
    <3>2. Len(results) = 0 => DOMAIN results = {}
      BY <1>1
    <3>3. QED
      BY <1>1, <3>1, <3>2
  <2>2. QED
    BY <1>3, <1>11, <2>1
<1>13. IF Exactly(results, title, year) # {}
       THEN m.exact /\ m.candidates = Exactly(results, title, year)
       ELSE ~m.exact
  BY <1>2, <1>8, <1>9
<1>14. QED
  BY <1>10, <1>12, <1>13 DEF m

(* It is one of the candidates, and of those that could be read none has more  *)
(* reviews.                                                                    *)
LEMMA ChosenIs ==
  ASSUME NEW results \in Seq(Rows), NEW candidates, candidates \subseteq DOMAIN results, candidates # {},
         NEW readable \in SUBSET Compared(candidates)
  PROVE  LET chosen == Chosen(results, candidates, readable)
         IN chosen \in candidates /\ \A i \in readable : results[i].reviews <= results[chosen].reviews
<1> DEFINE some == Compared(candidates)
           Worth(i) == Reviews(results, i, readable)
           most == {i \in some : \A j \in some : Worth(i) >= Worth(j)}
<1>1. /\ Len(results) \in Nat /\ DOMAIN results = 1..Len(results)
      /\ \A i \in DOMAIN results : results[i].reviews \in Nat
  <2>1. Len(results) \in Nat /\ DOMAIN results = 1..Len(results) /\ \A i \in DOMAIN results : results[i] \in Rows
    BY LenProperties, ElementOfSeq
  <2>2. QED
    BY <2>1 DEF Rows
<1>2. candidates \in SUBSET Nat /\ IsFiniteSet(candidates)
  <2>1. IsFiniteSet(1..Len(results)) /\ candidates \in SUBSET (1..Len(results))
    BY <1>1, FS_Interval
  <2>2. IsFiniteSet(candidates)
    BY <2>1, FS_Subset
  <2>3. QED
    BY <2>1, <2>2
<1>3. some \subseteq candidates
  BY DEF Compared
<1>4. some # {}
  <2>1. PICK i \in candidates : \A n \in candidates : i <= n
    BY <1>2, LeastOfNat
  <2>2. {j \in candidates : j < i} = {}
    BY <1>2, <2>1
  <2>3. Cardinality({j \in candidates : j < i}) = 0
    BY <2>2, FS_EmptySet
  <2>4. i \in some
    BY <2>1, <2>3, LookupsAssumption DEF Compared
  <2>5. QED
    BY <2>4
<1>5. \A i \in some : Worth(i) \in Int /\ Worth(i) >= -1
  BY <1>1, <1>3 DEF Reviews
<1>6. \A i \in readable : i \in some /\ Worth(i) = results[i].reviews
  BY DEF Reviews
<1>7. \A i \in candidates : i \notin readable => Worth(i) = -1
  BY DEF Reviews
<1>8. Chosen(results, candidates, readable) = Least(most)
  BY DEF Chosen
<1> HIDE DEF some
<1>9. most # {}
  <2> DEFINE worth == [i \in some |-> Worth(i) + 1]
             W == {worth[i] : i \in some}
  <2>1. IsFiniteSet(some)
    BY <1>2, <1>3, FS_Subset
  <2>2. IsFiniteSet(W)
    <3>1. worth \in [some -> W] /\ \A w \in W : \E i \in some : worth[i] = w
      OBVIOUS
    <3> HIDE DEF worth, W
    <3>2. worth \in Surjection(some, W)
      BY <3>1 DEF Surjection
    <3>3. QED
      BY <2>1, <3>2, FS_Surjection
  <2>3. W \in SUBSET Nat /\ W # {}
    BY <1>4, <1>5
  <2> HIDE DEF Worth
  <2>4. PICK w \in W : \A v \in W : w >= v
    <3> HIDE DEF W
    <3>1. QED
      BY <2>2, <2>3, GreatestOfFinite
  <2>5. PICK i \in some : w = Worth(i) + 1
    BY <2>4
  <2>6. \A j \in some : Worth(i) + 1 >= Worth(j) + 1
    BY <2>4, <2>5
  <2>7. i \in most
    BY <1>5, <2>5, <2>6
  <2>8. QED
    BY <2>7
<1> HIDE DEF Worth
<1>10. Least(most) \in most
  <2>1. most \in SUBSET Nat
    BY <1>2, <1>3
  <2> HIDE DEF most
  <2>2. QED
    BY <1>9, <2>1, LeastIs
<1> DEFINE chosen == Least(most)
<1>11. chosen \in some /\ \A j \in some : Worth(chosen) >= Worth(j)
  BY <1>10
<1> HIDE DEF chosen, most
<1>12. ASSUME NEW i \in readable
       PROVE  results[i].reviews <= results[chosen].reviews
  <2>1. Worth(i) = results[i].reviews /\ i \in some /\ Worth(i) \in Nat
    BY <1>1, <1>3, <1>6
  <2>2. Worth(chosen) >= Worth(i)
    BY <1>11, <2>1
  <2>3. chosen \in readable
    BY <1>3, <1>7, <1>11, <2>1, <2>2
  <2>4. QED
    BY <1>6, <2>1, <2>2, <2>3
<1>13. QED
  BY <1>3, <1>8, <1>11, <1>12 DEF chosen

LEMMA PickedIsMeant ==
  ASSUME command.film # <<>>, Pickings(command.film, Arg("title").raw)
  PROVE  FilmMeant
<1> DEFINE query == Arg("title").raw
           titled == SiteSearch(Front(query))
           asked == SiteSearch(query)
           byTitle == MatchesOf(titled, Front(query), Last(query))
           byQuery == MatchesOf(asked, query, NoYear)
           found == SearchFor(query)
           candidates == found.matched.candidates
           results == found.results
           ofYear == {f \in Range(titled) : HasYear(query) /\ f.title = Front(query) /\ f.year = Last(query)}
           named == {f \in Range(asked) : f.title = query}
<1>1. PICK readable \in SUBSET Compared(candidates) :
        command.film = <<IF candidates = {} THEN 0 ELSE Chosen(results, candidates, readable), readable>>
  BY DEF Pickings
<1> DEFINE chosen == IF candidates = {} THEN 0 ELSE Chosen(results, candidates, readable)
<1>2. command.film[1] = chosen /\ command.film[2] = readable
  BY <1>1
<1>3. titled \in Seq(Rows) /\ asked \in Seq(Rows)
  BY SiteFinds
<1>4. /\ byTitle.candidates \subseteq DOMAIN titled
      /\ IF Exactly(titled, Front(query), Last(query)) # {}
         THEN byTitle.exact /\ byTitle.candidates = Exactly(titled, Front(query), Last(query))
         ELSE ~byTitle.exact
  BY <1>3, MatchesAre
<1>5. /\ byQuery.candidates \subseteq DOMAIN asked
      /\ Exactly(asked, query, NoYear) # {} => byQuery.candidates = Exactly(asked, query, NoYear)
      /\ byQuery.candidates = {} <=> asked = <<>>
  BY <1>3, MatchesAre
<1>6. found = IF HasYear(query) /\ byTitle.exact THEN [results |-> titled, matched |-> byTitle]
              ELSE [results |-> asked, matched |-> byQuery]
  BY DEF SearchFor, TitleFound
<1> HIDE DEF found, byTitle, byQuery, titled, asked
<1>7. results \in Seq(Rows) /\ candidates \subseteq DOMAIN results
  BY <1>3, <1>4, <1>5, <1>6
<1>8. candidates # {} =>
        chosen \in candidates /\ \A i \in readable : results[i].reviews <= results[chosen].reviews
  <2> HIDE DEF results, candidates
  <2>1. QED
    BY <1>7, ChosenIs
<1>9. candidates # {} => chosen # 0
  <2>1. DOMAIN results = 1..Len(results) /\ Len(results) \in Nat
    BY <1>7, LenProperties
  <2>2. QED
    BY <1>7, <1>8, <2>1
<1>10. HasYear(query) => Last(query) # NoYear
  BY LookupsAssumption DEF HasYear, Last
<1>11. candidates = {} => asked = <<>>
  BY <1>4, <1>5, <1>6
<1>12. ASSUME candidates # {}, ofYear # {}
       PROVE  results[chosen] \in ofYear
  <2>1. HasYear(query) /\ Last(query) # NoYear
    BY <1>10, <1>12
  <2>2. PICK i \in DOMAIN titled : titled[i].title = Front(query) /\ titled[i].year = Last(query)
    BY <1>12 DEF Range
  <2>3. i \in Exactly(titled, Front(query), Last(query))
    BY <2>2 DEF Exactly
  <2>4. found = [results |-> titled, matched |-> byTitle]
    BY <1>4, <1>6, <2>1, <2>3
  <2>5. results = titled /\ candidates = Exactly(titled, Front(query), Last(query))
    BY <1>4, <2>3, <2>4
  <2>6. chosen \in Exactly(titled, Front(query), Last(query))
    BY <1>8, <1>12, <2>5
  <2>7. titled[chosen] \in Range(titled) /\ titled[chosen].title = Front(query) /\ titled[chosen].year = Last(query)
    BY <2>1, <2>6 DEF Exactly, Range
  <2>8. QED
    BY <2>1, <2>5, <2>7
<1>13. ASSUME candidates # {}, ofYear = {}, named # {}
       PROVE  results[chosen] \in named
  <2>1. ~(HasYear(query) /\ byTitle.exact)
    <3>1. SUFFICES ASSUME HasYear(query), byTitle.exact
                   PROVE  FALSE
      OBVIOUS
    <3>2. PICK i \in Exactly(titled, Front(query), Last(query)) : TRUE
      BY <1>4, <3>1
    <3>3. titled[i] \in ofYear
      BY <1>10, <3>1, <3>2 DEF Exactly, Range
    <3>4. QED
      BY <1>13, <3>3
  <2>2. found = [results |-> asked, matched |-> byQuery]
    BY <1>6, <2>1
  <2>3. PICK i \in DOMAIN asked : asked[i].title = query
    BY <1>13 DEF Range
  <2>4. i \in Exactly(asked, query, NoYear)
    BY <2>3 DEF Exactly
  <2>5. results = asked /\ candidates = Exactly(asked, query, NoYear)
    BY <1>5, <2>2, <2>4
  <2>6. chosen \in Exactly(asked, query, NoYear)
    BY <1>8, <1>13, <2>5
  <2>7. asked[chosen] \in Range(asked) /\ asked[chosen].title = query
    BY <2>6 DEF Exactly, Range
  <2>8. QED
    BY <2>5, <2>7
<1>14. chosen = 0 <=> candidates = {}
  BY <1>9
<1> HIDE DEF chosen, results, candidates, ofYear, named
<1>15. IF command.film[1] = 0 THEN asked = <<>>
       ELSE /\ ofYear # {} => results[command.film[1]] \in ofYear
            /\ ofYear = {} /\ named # {} => results[command.film[1]] \in named
            /\ \A i \in command.film[2] : results[i].reviews <= results[command.film[1]].reviews
  BY <1>2, <1>8, <1>11, <1>12, <1>13, <1>14
<1>16. QED
  BY <1>15 DEF FilmMeant, found, results, ofYear, named, asked, titled

-----------------------------------------------------------------------------
(* Filtered, flattened, and each once                                          *)

(* Of a sequence, only what is in S. *)
LEMMA OnlyOf ==
  ASSUME NEW S, NEW V, NEW seq \in Seq(V)
  PROVE  Only(S, seq) \in Seq(S)
<1> DEFINE n == Len(seq)
           base == <<>>
           D == Seq(S)
           More(i, kept) == IF seq[i] \in S THEN Append(kept, seq[i]) ELSE kept
           step == [p \in (1..n) \X D |-> More(p[1], p[2])]
           Folds(g) == g = [T \in SUBSET (1..n) |->
                              IF T = {} THEN base ELSE More(Top(T), g[T \ {Top(T)}])]
           iter == CHOOSE g : Folds(g)
<1>1. n \in Nat /\ DOMAIN seq = 1..n
  BY LenProperties
<1>2. Only(S, seq) = iter[1..n]
  BY <1>1 DEF Only, FoldLeft, MapThenFoldSet, Max, Top
<1> HIDE DEF n
<1>3. base \in D /\ \A i \in 1..n, kept \in D : More(i, kept) \in D
  OBVIOUS
<1>4. step \in [(1..n) \X D -> D] /\ \A i \in 1..n, kept \in D : step[<<i, kept>>] = More(i, kept)
  <2> HIDE DEF D, More
  <2>1. QED
    BY <1>3
<1>5. \A T \in SUBSET (1..n) : T # {} => Top(T) \in 1..n
  BY <1>1, TopIs
<1> HIDE DEF D, step, More, base
<1>6. base \in D /\ step \in [(1..n) \X D -> D]
  BY <1>3, <1>4
<1>7. Folds(iter)
  <2>1. PICK g \in [SUBSET (1..n) -> D] :
          FoldsUp(g, n, base, step)
    BY <1>1, <1>6, FoldExists
  <2>2. \A T \in SUBSET (1..n) : T # {} => step[<<Top(T), g[T \ {Top(T)}]>>] = More(Top(T), g[T \ {Top(T)}])
    BY <1>4, <1>5
  <2>3. \A T \in SUBSET (1..n) : g[T] = IF T = {} THEN base ELSE More(Top(T), g[T \ {Top(T)}])
    BY <2>1, <2>2 DEF FoldsUp
  <2>4. Folds(g)
    BY <2>3
  <2>5. QED
    BY <2>4
<1> HIDE DEF iter
<1>8. StepsIn(iter, n, D, base, step)
  BY <1>4, <1>5, <1>7 DEF StepsIn
<1> HIDE DEF Folds
<1>9. PICK h \in [0..n -> D] : Climbs(h, n, base, step) /\ h[n] = iter[1..n]
  <2>1. n \in Nat
    BY <1>1
  <2>2. RunsTo(n, D, base, step, iter[1..n])
    BY <1>6, <1>8, <2>1, FoldInOrder
  <2>3. QED
    BY <2>2 DEF RunsTo
<1>10. QED
  BY <1>1, <1>2, <1>9 DEF D

(* What was kept of a sequence so far, each once. *)
Keeps(seq, n, h) ==
  \A i \in 1..n : h[i] = IF Contains(h[i - 1], seq[i]) THEN h[i - 1] ELSE Append(h[i - 1], seq[i])

LEMMA DistinctKeeps ==
  ASSUME NEW V, NEW seq \in Seq(V)
  PROVE  \E h \in [0..Len(seq) -> Seq(V)] : h[0] = <<>> /\ h[Len(seq)] = Distinct(seq) /\ Keeps(seq, Len(seq), h)
<1> DEFINE n == Len(seq)
           base == <<>>
           D == Seq(V)
           More(i, kept) == IF Contains(kept, seq[i]) THEN kept ELSE Append(kept, seq[i])
           step == [p \in (1..n) \X D |-> More(p[1], p[2])]
           Folds(g) == g = [T \in SUBSET (1..n) |->
                              IF T = {} THEN base ELSE More(Top(T), g[T \ {Top(T)}])]
           iter == CHOOSE g : Folds(g)
<1>1. n \in Nat /\ DOMAIN seq = 1..n /\ \A i \in 1..n : seq[i] \in V
  BY LenProperties, ElementOfSeq
<1>2. Distinct(seq) = iter[1..n]
  BY <1>1 DEF Distinct, FoldLeft, MapThenFoldSet, Max, Top
<1> HIDE DEF n
<1>3. base \in D /\ \A i \in 1..n, kept \in D : More(i, kept) \in D
  BY <1>1
<1>4. step \in [(1..n) \X D -> D] /\ \A i \in 1..n, kept \in D : step[<<i, kept>>] = More(i, kept)
  <2> HIDE DEF D, More
  <2>1. QED
    BY <1>3
<1>5. \A T \in SUBSET (1..n) : T # {} => Top(T) \in 1..n
  BY <1>1, TopIs
<1> HIDE DEF D, step, More, base
<1>6. base \in D /\ step \in [(1..n) \X D -> D]
  BY <1>3, <1>4
<1>7. Folds(iter)
  <2>1. PICK g \in [SUBSET (1..n) -> D] :
          FoldsUp(g, n, base, step)
    BY <1>1, <1>6, FoldExists
  <2>2. \A T \in SUBSET (1..n) : T # {} => step[<<Top(T), g[T \ {Top(T)}]>>] = More(Top(T), g[T \ {Top(T)}])
    BY <1>4, <1>5
  <2>3. \A T \in SUBSET (1..n) : g[T] = IF T = {} THEN base ELSE More(Top(T), g[T \ {Top(T)}])
    BY <2>1, <2>2 DEF FoldsUp
  <2>4. Folds(g)
    BY <2>3
  <2>5. QED
    BY <2>4
<1> HIDE DEF iter
<1>8. StepsIn(iter, n, D, base, step)
  BY <1>4, <1>5, <1>7 DEF StepsIn
<1> HIDE DEF Folds
<1>9. PICK h \in [0..n -> D] : Climbs(h, n, base, step) /\ h[n] = iter[1..n]
  <2>1. n \in Nat
    BY <1>1
  <2>2. RunsTo(n, D, base, step, iter[1..n])
    BY <1>6, <1>8, <2>1, FoldInOrder
  <2>3. QED
    BY <2>2 DEF RunsTo
<1>10. ASSUME NEW i \in 1..n
       PROVE  h[i] = More(i, h[i - 1])
  <2>1. h[i - 1] \in D
    BY <1>1
  <2>2. QED
    BY <1>4, <1>9, <2>1 DEF Climbs
<1>11. Keeps(seq, n, h) /\ h[0] = <<>>
  BY <1>9, <1>10 DEF Climbs, Keeps, More, base
<1>12. QED
  BY <1>2, <1>9, <1>11 DEF D, n

(* A sequence lists what is so far away as a relation says, the nearest first. *)
ListedBy(seq, R, away) ==
  /\ \A k \in 1..Len(seq) : <<seq[k], away[k]>> \in R
  /\ \A k, l \in 1..Len(seq) : k < l => away[k] <= away[l]
  /\ \A pair \in R : \E k \in 1..Len(seq) : <<seq[k], away[k]>> = pair

Lists(seq, R) == \E away \in [1..Len(seq) -> Nat] : ListedBy(seq, R, away)

LEMMA ListsJoined ==
  ASSUME NEW V, NEW s \in Seq(V), NEW t \in Seq(V),
         NEW R \in SUBSET (V \X Nat), NEW Q \in SUBSET (V \X Nat), Lists(s, R), Lists(t, Q),
         \A p \in R, q \in Q : p[2] <= q[2]
  PROVE  s \o t \in Seq(V) /\ Lists(s \o t, R \union Q)
<1> DEFINE n == Len(s)
           m == Len(t)
           st == s \o t
<1>1. n \in Nat /\ m \in Nat /\ st \in Seq(V) /\ Len(st) = n + m
      /\ \A k \in 1..(n + m) : st[k] = IF k <= n THEN s[k] ELSE t[k - n]
  BY LenProperties, ConcatProperties
<1>2. PICK a \in [1..n -> Nat] : ListedBy(s, R, a)
  BY DEF Lists
<1>3. PICK b \in [1..m -> Nat] : ListedBy(t, Q, b)
  BY DEF Lists
<1> DEFINE away == [k \in 1..(n + m) |-> IF k <= n THEN a[k] ELSE b[k - n]]
<1> HIDE DEF n, m, st
<1>4. away \in [1..(n + m) -> Nat]
  BY <1>1, <1>2, <1>3
<1>5. ASSUME NEW k \in 1..(n + m)
      PROVE  \/ k \in 1..n /\ st[k] = s[k] /\ away[k] = a[k]
             \/ k \notin 1..n /\ k - n \in 1..m /\ st[k] = t[k - n] /\ away[k] = b[k - n]
  BY <1>1
<1>6. /\ \A k \in 1..n : k \in 1..(n + m) /\ st[k] = s[k] /\ away[k] = a[k]
      /\ \A k \in 1..m : n + k \in 1..(n + m) /\ st[n + k] = t[k] /\ away[n + k] = b[k]
  <2>1. \A k \in 1..n : k \in 1..(n + m) /\ st[k] = s[k] /\ away[k] = a[k]
    BY <1>1
  <2>2. ASSUME NEW k \in 1..m
        PROVE  n + k \in 1..(n + m) /\ st[n + k] = t[k] /\ away[n + k] = b[k]
    <3>1. n + k \in 1..(n + m) /\ ~(n + k <= n) /\ (n + k) - n = k
      BY <1>1
    <3>2. QED
      BY <1>1, <3>1
  <2>3. QED
    BY <2>1, <2>2
<1> HIDE DEF away
<1>7. /\ \A k \in 1..n : <<s[k], a[k]>> \in R
      /\ \A k, l \in 1..n : k < l => a[k] <= a[l]
      /\ \A pair \in R : \E k \in 1..n : <<s[k], a[k]>> = pair
  BY <1>2 DEF ListedBy, n
<1>8. /\ \A k \in 1..m : <<t[k], b[k]>> \in Q
      /\ \A k, l \in 1..m : k < l => b[k] <= b[l]
      /\ \A pair \in Q : \E k \in 1..m : <<t[k], b[k]>> = pair
  BY <1>3 DEF ListedBy, m
<1>9. ASSUME NEW k \in 1..(n + m)
      PROVE  <<st[k], away[k]>> \in R \union Q
  BY <1>5, <1>7, <1>8
<1>10. ASSUME NEW k \in 1..n, NEW l \in 1..m
       PROVE  a[k] <= b[l]
  <2>1. <<s[k], a[k]>> \in R /\ <<t[l], b[l]>> \in Q
    BY <1>7, <1>8
  <2>2. PICK p \in R, q \in Q : p = <<s[k], a[k]>> /\ q = <<t[l], b[l]>>
    BY <2>1
  <2>3. p[2] <= q[2]
    OBVIOUS
  <2>4. QED
    BY <2>2, <2>3
<1>11. ASSUME NEW k \in 1..(n + m), NEW l \in 1..(n + m), k < l
       PROVE  away[k] <= away[l]
  <2>1. CASE l \in 1..n
    <3>1. k \in 1..n
      BY <1>1, <1>11, <2>1
    <3>2. QED
      BY <1>6, <1>7, <1>11, <2>1, <3>1
  <2>2. CASE k \in 1..n /\ l \notin 1..n
    BY <1>5, <1>6, <1>10, <2>2
  <2>3. CASE k \notin 1..n /\ l \notin 1..n
    <3>1. k - n \in 1..m /\ l - n \in 1..m /\ k - n < l - n /\ away[k] = b[k - n] /\ away[l] = b[l - n]
      BY <1>1, <1>5, <1>11, <2>3
    <3>2. QED
      BY <1>8, <3>1
  <2>4. k \in 1..n \/ l \notin 1..n \/ l \in 1..n
    OBVIOUS
  <2>5. QED
    BY <2>1, <2>2, <2>3
<1>12. ASSUME NEW pair \in R \union Q
       PROVE  \E k \in 1..(n + m) : <<st[k], away[k]>> = pair
  <2>1. CASE pair \in R
    BY <1>6, <1>7, <2>1
  <2>2. CASE pair \in Q
    <3>1. PICK k \in 1..m : <<t[k], b[k]>> = pair
      BY <1>8, <2>2
    <3>2. n + k \in 1..(n + m) /\ <<st[n + k], away[n + k]>> = pair
      BY <1>6, <3>1
    <3>3. QED
      BY <3>2
  <2>3. QED
    BY <2>1, <2>2
<1>13. ListedBy(st, R \union Q, away)
  BY <1>1, <1>9, <1>11, <1>12 DEF ListedBy
<1>14. Lists(st, R \union Q)
  BY <1>1, <1>4, <1>13 DEF Lists
<1>15. QED
  BY <1>1, <1>14 DEF st

(* All that is in a sequence, at one distance. *)
At(seq, V, d) == {pair \in V \X Nat : pair[2] = d /\ Contains(seq, pair[1])}

LEMMA ListsAlone ==
  ASSUME NEW V, NEW s \in Seq(V), NEW d \in Nat
  PROVE  Lists(s, At(s, V, d))
<1> DEFINE n == Len(s)
           away == [k \in 1..n |-> d]
<1>1. n \in Nat /\ \A k \in 1..n : s[k] \in V
  BY LenProperties, ElementOfSeq
<1> HIDE DEF n
<1>2. away \in [1..n -> Nat] /\ \A k \in 1..n : away[k] = d
  BY <1>1
<1> HIDE DEF away
<1>3. ASSUME NEW k \in 1..n
      PROVE  <<s[k], away[k]>> \in At(s, V, d)
  <2>1. s[k] \in V /\ away[k] = d /\ Contains(s, s[k])
    BY <1>1, <1>2 DEF Contains, n
  <2>2. <<s[k], d>> \in V \X Nat
    BY <2>1
  <2>3. QED
    BY <2>1, <2>2 DEF At
<1>4. ASSUME NEW pair \in At(s, V, d)
      PROVE  \E k \in 1..n : <<s[k], away[k]>> = pair
  <2>1. pair \in V \X Nat /\ pair[2] = d /\ Contains(s, pair[1])
    BY DEF At
  <2>2. PICK k \in 1..n : s[k] = pair[1]
    BY <2>1 DEF Contains, n
  <2>3. pair = <<s[k], away[k]>>
    BY <1>2, <2>1, <2>2
  <2>4. QED
    BY <2>3
<1>5. ListedBy(s, At(s, V, d), away)
  BY <1>2, <1>3, <1>4 DEF ListedBy, n
<1>6. QED
  BY <1>2, <1>5 DEF Lists, n

(* The elements of sequences, each at its sequence's distance. *)
Among(seqs, V, n, far) ==
  {pair \in V \X Nat : \E i \in 1..n : pair[2] = far[i] /\ Contains(seqs[i], pair[1])}

FlattenedTo(seqs, V, n, h) ==
  h[0] = <<>> /\ \A i \in 1..n : h[i] = h[i - 1] \o seqs[i]

LEMMA FlattenIs ==
  ASSUME NEW V, NEW seqs \in Seq(Seq(V))
  PROVE  \E h \in [0..Len(seqs) -> Seq(V)] : FlattenedTo(seqs, V, Len(seqs), h) /\ h[Len(seqs)] = FlattenSeq(seqs)
<1> DEFINE n == Len(seqs)
           base == <<>>
           D == Seq(V)
           step == [p \in (1..n) \X D |-> p[2] \o seqs[p[1]]]
           Flattens(f) == f = [i \in 1..n |-> IF i = 1 THEN seqs[i] ELSE f[i - 1] \o seqs[i]]
           flatten == CHOOSE f : Flattens(f)
<1>1. n \in Nat /\ \A i \in 1..n : seqs[i] \in Seq(V)
  BY LenProperties, ElementOfSeq
<1>2. FlattenSeq(seqs) = IF n = 0 THEN seqs ELSE flatten[n]
  BY DEF FlattenSeq
<1>3. n = 0 => seqs = <<>>
  BY EmptySeq
<1> HIDE DEF n
<1>4. base \in D /\ step \in [(1..n) \X D -> D] /\ \A i \in 1..n, s \in D : step[<<i, s>>] = s \o seqs[i]
  <2>1. \A i \in 1..n, s \in D : s \o seqs[i] \in D
    BY <1>1, ConcatProperties
  <2>2. base \in D
    OBVIOUS
  <2> HIDE DEF D, base
  <2>3. QED
    BY <2>1, <2>2
<1> HIDE DEF D, step, base
<1>5. PICK h \in [0..n -> D] : Climbs(h, n, base, step)
  <2>1. n \in Nat
    BY <1>1
  <2>2. PICK g \in [SUBSET (1..n) -> D] : FoldsUp(g, n, base, step)
    BY <1>4, <2>1, FoldExists
  <2>3. StepsIn(g, n, D, base, step)
    BY <2>2 DEF FoldsUp, StepsIn
  <2>4. RunsTo(n, D, base, step, g[1..n])
    BY <1>4, <2>1, <2>3, FoldInOrder
  <2>5. QED
    BY <2>4 DEF RunsTo
<1>6. h[0] = base /\ \A i \in 1..n : i - 1 \in 0..n /\ h[i - 1] \in D /\ h[i] = h[i - 1] \o seqs[i]
  <2>1. h[0] = base
    BY <1>5 DEF Climbs
  <2>2. ASSUME NEW i \in 1..n
        PROVE  i - 1 \in 0..n /\ h[i - 1] \in D /\ h[i] = h[i - 1] \o seqs[i]
    <3>1. i - 1 \in 0..n
      BY <1>1
    <3>2. h[i - 1] \in D
      BY <1>5, <3>1
    <3>3. h[i] = step[<<i, h[i - 1]>>]
      BY <1>5 DEF Climbs
    <3>4. QED
      BY <1>4, <3>1, <3>2, <3>3
  <2>3. QED
    BY <2>1, <2>2
<1>7. n # 0 => h[1] = seqs[1]
  <2>1. SUFFICES ASSUME n # 0
                 PROVE  h[1] = seqs[1]
    OBVIOUS
  <2>2. 1 \in 1..n /\ 1 - 1 = 0
    BY <1>1, <2>1
  <2>3. h[1] = base \o seqs[1] /\ seqs[1] \in Seq(V)
    BY <1>1, <1>6, <2>2
  <2>4. QED
    BY <2>3, ConcatEmptySeq DEF base
<1>8. Flattens([i \in 1..n |-> h[i]])
  <2> DEFINE f == [i \in 1..n |-> h[i]]
  <2>1. ASSUME NEW i \in 1..n
        PROVE  f[i] = IF i = 1 THEN seqs[i] ELSE f[i - 1] \o seqs[i]
    <3>1. i # 1 => i - 1 \in 1..n
      BY <1>1
    <3>2. i = 1 => n # 0
      BY <1>1
    <3>3. QED
      BY <1>6, <1>7, <3>1, <3>2
  <2>2. f = [i \in 1..n |-> f[i]]
    OBVIOUS
  <2> HIDE DEF f
  <2>3. f = [i \in 1..n |-> IF i = 1 THEN seqs[i] ELSE f[i - 1] \o seqs[i]]
    BY <2>1, <2>2
  <2>4. QED
    BY <2>3 DEF f
<1>9. Flattens(flatten)
  BY <1>8
<1> HIDE DEF flatten
<1>10. \A i \in 1..n : flatten[i] = IF i = 1 THEN seqs[i] ELSE flatten[i - 1] \o seqs[i]
  BY <1>9
<1> HIDE DEF Flattens
<1> DEFINE Good == {i \in 0..n : i = 0 \/ flatten[i] = h[i]}
<1>11. Good = 0..n
  <2>1. Good \in SUBSET (0..n) /\ 0 \in Good
    BY <1>1
  <2>2. ASSUME NEW i \in 1..n, i - 1 \in Good
        PROVE  i \in Good
    <3>1. CASE i = 1
      BY <1>1, <1>7, <1>10, <3>1
    <3>2. CASE i # 1
      <4>1. i - 1 # 0 /\ flatten[i - 1] = h[i - 1]
        BY <2>2, <3>2
      <4>2. flatten[i] = flatten[i - 1] \o seqs[i]
        BY <1>10, <3>2
      <4>3. h[i] = h[i - 1] \o seqs[i]
        BY <1>6
      <4>4. flatten[i] = h[i] /\ i \in 0..n
        BY <1>1, <4>1, <4>2, <4>3
      <4>5. QED
        BY <4>4
    <3>3. QED
      BY <3>1, <3>2
  <2>3. n \in Nat
    BY <1>1
  <2> HIDE DEF Good
  <2>4. QED
    BY <2>1, <2>2, <2>3, OneByOne
<1>12. h[n] = FlattenSeq(seqs)
  <2>1. n \in Good
    <3> HIDE DEF Good
    <3>1. n \in 0..n
      BY <1>1
    <3>2. QED
      BY <1>11, <3>1
  <2>2. n = 0 \/ flatten[n] = h[n]
    BY <2>1
  <2>3. QED
    BY <1>2, <1>3, <1>6, <2>2 DEF base
<1>13. FlattenedTo(seqs, V, n, h)
  BY <1>6 DEF FlattenedTo, base
<1>14. QED
  BY <1>12, <1>13 DEF n, D

(* What is flattened lists the elements, if the distances of the sequences     *)
(* only grow.                                                                  *)
LEMMA ListsFlattened ==
  ASSUME NEW V, NEW seqs \in Seq(Seq(V)), NEW far \in [1..Len(seqs) -> Nat],
         \A i, j \in 1..Len(seqs) : i < j => far[i] <= far[j]
  PROVE  FlattenSeq(seqs) \in Seq(V) /\ Lists(FlattenSeq(seqs), Among(seqs, V, Len(seqs), far))
<1> DEFINE n == Len(seqs)
<1>1. n \in Nat /\ \A i \in 1..n : seqs[i] \in Seq(V)
  BY LenProperties, ElementOfSeq
<1>2. PICK h \in [0..n -> Seq(V)] : FlattenedTo(seqs, V, n, h) /\ h[n] = FlattenSeq(seqs)
  BY FlattenIs
<1>3. far \in [1..n -> Nat] /\ \A i, j \in 1..n : i < j => far[i] <= far[j]
  OBVIOUS
<1> HIDE DEF n
<1>4. \A i \in 0..n : h[i] \in Seq(V)
  BY <1>2
<1> DEFINE Good == {i \in 0..n : Lists(h[i], Among(seqs, V, i, far))}
<1>5. 0 \in Good
  <2>1. h[0] = <<>> /\ Len(<<>>) = 0
    BY <1>2 DEF FlattenedTo
  <2>2. Among(seqs, V, 0, far) = {}
    BY DEF Among
  <2>3. ListedBy(<<>>, {}, [k \in 1..0 |-> 0])
    BY <2>1 DEF ListedBy
  <2>4. [k \in 1..0 |-> 0] \in [1..Len(<<>>) -> Nat]
    BY <2>1
  <2>5. Lists(<<>>, {})
    BY <2>3, <2>4 DEF Lists
  <2>6. 0 \in 0..n
    BY <1>1
  <2>7. QED
    BY <2>1, <2>2, <2>5, <2>6
<1>6. ASSUME NEW i \in 1..n, i - 1 \in Good
      PROVE  i \in Good
  <2> DEFINE R == Among(seqs, V, i - 1, far)
             Q == At(seqs[i], V, far[i])
  <2>1. i - 1 \in 0..n /\ i \in 0..n /\ h[i - 1] \in Seq(V) /\ seqs[i] \in Seq(V) /\ far[i] \in Nat
    BY <1>1, <1>3, <1>4
  <2>2. Lists(h[i - 1], R)
    BY <1>6
  <2>3. Lists(seqs[i], Q)
    BY <2>1, ListsAlone
  <2>4. R \in SUBSET (V \X Nat) /\ Q \in SUBSET (V \X Nat)
    BY DEF Among, At
  <2>5. ASSUME NEW p \in R, NEW q \in Q
        PROVE  p[2] <= q[2]
    <3>1. q[2] = far[i]
      BY DEF At
    <3>2. PICK j \in 1..(i - 1) : p[2] = far[j]
      BY DEF Among
    <3>3. j \in 1..n /\ j < i
      BY <1>1, <2>1
    <3>4. QED
      BY <1>3, <3>1, <3>2, <3>3
  <2>6. R \union Q = Among(seqs, V, i, far)
    <3>1. \A j : j \in 1..i <=> j \in 1..(i - 1) \/ j = i
      BY <1>1
    <3>2. QED
      BY <3>1 DEF Among, At
  <2>7. h[i] = h[i - 1] \o seqs[i]
    BY <1>2 DEF FlattenedTo
  <2> HIDE DEF R, Q
  <2>8. Lists(h[i - 1] \o seqs[i], R \union Q)
    BY <2>1, <2>2, <2>3, <2>4, <2>5, ListsJoined
  <2>9. QED
    BY <2>1, <2>6, <2>7, <2>8
<1>7. Good = 0..n
  <2>1. n \in Nat /\ Good \in SUBSET (0..n)
    BY <1>1
  <2> HIDE DEF Good
  <2>2. QED
    BY <1>5, <1>6, <2>1, OneByOne
<1>8. n \in Good
  <2> HIDE DEF Good
  <2>1. n \in 0..n
    BY <1>1
  <2>2. QED
    BY <1>7, <2>1
<1>9. QED
  BY <1>1, <1>2, <1>4, <1>8 DEF n

(* Each element of a sequence once, where it comes first. *)
OnceOf(seq, n, kept, first) ==
  /\ \A k \in 1..Len(kept) : kept[k] = seq[first[k]]
  /\ \A k, l \in 1..Len(kept) : k < l => first[k] < first[l] /\ kept[k] # kept[l]
  /\ \A j \in 1..n : \E k \in 1..Len(kept) : kept[k] = seq[j] /\ first[k] <= j

Once(seq, n, kept) == \E first \in [1..Len(kept) -> 1..n] : OnceOf(seq, n, kept, first)

LEMMA OnceMore ==
  ASSUME NEW V, NEW seq, NEW n \in Nat, NEW i \in 1..n, seq[i] \in V, NEW kept \in Seq(V), Once(seq, i - 1, kept)
  PROVE  Once(seq, i, IF Contains(kept, seq[i]) THEN kept ELSE Append(kept, seq[i]))
<1> DEFINE m == Len(kept)
<1>1. m \in Nat
  BY LenProperties
<1>2. PICK first \in [1..m -> 1..(i - 1)] : OnceOf(seq, i - 1, kept, first)
  BY DEF Once
<1> HIDE DEF m
<1>3. /\ \A k \in 1..m : kept[k] = seq[first[k]]
      /\ \A k, l \in 1..m : k < l => first[k] < first[l] /\ kept[k] # kept[l]
      /\ \A j \in 1..(i - 1) : \E k \in 1..m : kept[k] = seq[j] /\ first[k] <= j
  BY <1>2 DEF OnceOf, m
<1>4. \A j \in 1..i : j \in 1..(i - 1) \/ j = i
  BY <1>1
<1>5. \A k \in 1..m : first[k] \in 1..(i - 1) /\ first[k] \in 1..i /\ first[k] < i
  BY <1>1, <1>2
<1>6. CASE Contains(kept, seq[i])
  <2>1. PICK k \in 1..m : kept[k] = seq[i]
    BY <1>6 DEF Contains, m
  <2>2. first[k] <= i
    BY <1>5
  <2>3. \A j \in 1..i : \E l \in 1..m : kept[l] = seq[j] /\ first[l] <= j
    BY <1>3, <1>4, <2>1, <2>2
  <2>4. first \in [1..m -> 1..i]
    BY <1>2, <1>5
  <2>5. OnceOf(seq, i, kept, first)
    BY <1>3, <2>3 DEF OnceOf, m
  <2>6. QED
    BY <1>6, <2>4, <2>5 DEF Once, m
<1>7. CASE ~Contains(kept, seq[i])
  <2> DEFINE more == Append(kept, seq[i])
             then == [k \in 1..(m + 1) |-> IF k = m + 1 THEN i ELSE first[k]]
  <2>1. Len(more) = m + 1 /\ more[m + 1] = seq[i] /\ \A k \in 1..m : more[k] = kept[k]
    BY AppendProperties DEF m
  <2>2. m + 1 \in 1..(m + 1) /\ \A k \in 1..(m + 1) : k = m + 1 \/ k \in 1..m
    BY <1>1
  <2>3. \A k \in 1..m : k # m + 1 /\ k \in 1..(m + 1)
    BY <1>1
  <2>4. then[m + 1] = i /\ \A k \in 1..m : then[k] = first[k]
    BY <2>2, <2>3
  <2>5. then \in [1..(m + 1) -> 1..i]
    <3>1. i \in 1..i
      OBVIOUS
    <3>2. QED
      BY <1>5, <2>2, <3>1
  <2> HIDE DEF then, more
  <2>6. \A k \in 1..(m + 1) : more[k] = seq[then[k]]
    BY <1>3, <2>1, <2>2, <2>4
  <2>7. ASSUME NEW k \in 1..(m + 1), NEW l \in 1..(m + 1), k < l
        PROVE  then[k] < then[l] /\ more[k] # more[l]
    <3>1. k \in 1..m
      BY <1>1, <2>7
    <3>2. CASE l = m + 1
      <4>1. kept[k] # seq[i]
        BY <1>7, <3>1 DEF Contains, m
      <4>2. QED
        BY <1>5, <2>1, <2>4, <3>1, <3>2, <4>1
    <3>3. CASE l \in 1..m
      BY <1>3, <2>1, <2>4, <2>7, <3>1, <3>3
    <3>4. QED
      BY <2>2, <3>2, <3>3
  <2>8. ASSUME NEW j \in 1..i
        PROVE  \E k \in 1..(m + 1) : more[k] = seq[j] /\ then[k] <= j
    <3>1. CASE j = i
      BY <2>1, <2>2, <2>4, <3>1
    <3>2. CASE j \in 1..(i - 1)
      BY <1>3, <2>1, <2>3, <2>4, <3>2
    <3>3. QED
      BY <1>4, <3>1, <3>2
  <2>9. OnceOf(seq, i, more, then)
    BY <2>1, <2>6, <2>7, <2>8 DEF OnceOf
  <2>10. Once(seq, i, more)
    BY <2>1, <2>5, <2>9 DEF Once
  <2>11. QED
    BY <1>7, <2>10 DEF more
<1>8. QED
  BY <1>6, <1>7

LEMMA DistinctIs ==
  ASSUME NEW V, NEW seq \in Seq(V)
  PROVE  Distinct(seq) \in Seq(V) /\ Once(seq, Len(seq), Distinct(seq))
<1> DEFINE n == Len(seq)
<1>1. n \in Nat /\ \A i \in 1..n : seq[i] \in V
  BY LenProperties, ElementOfSeq
<1>2. PICK h \in [0..n -> Seq(V)] : h[0] = <<>> /\ h[n] = Distinct(seq) /\ Keeps(seq, n, h)
  BY DistinctKeeps
<1> HIDE DEF n
<1>3. \A i \in 0..n : h[i] \in Seq(V)
  BY <1>2
<1> DEFINE Good == {i \in 0..n : Once(seq, i, h[i])}
<1>4. 0 \in Good
  <2>1. Len(<<>>) = 0 /\ 0 \in 0..n
    BY <1>1
  <2>2. OnceOf(seq, 0, <<>>, [k \in 1..0 |-> 0])
    BY <2>1 DEF OnceOf
  <2>3. [k \in 1..0 |-> 0] \in [1..Len(<<>>) -> 1..0]
    BY <2>1
  <2>4. Once(seq, 0, <<>>)
    BY <2>2, <2>3 DEF Once
  <2>5. QED
    BY <1>2, <2>1, <2>4
<1>5. ASSUME NEW i \in 1..n, i - 1 \in Good
      PROVE  i \in Good
  <2>1. i - 1 \in 0..n /\ i \in 0..n /\ Once(seq, i - 1, h[i - 1])
    BY <1>1, <1>5
  <2>2. h[i - 1] \in Seq(V) /\ seq[i] \in V
    BY <1>1, <1>3, <2>1
  <2>3. h[i] = IF Contains(h[i - 1], seq[i]) THEN h[i - 1] ELSE Append(h[i - 1], seq[i])
    BY <1>2 DEF Keeps
  <2>4. Once(seq, i, IF Contains(h[i - 1], seq[i]) THEN h[i - 1] ELSE Append(h[i - 1], seq[i]))
    BY <1>1, <2>1, <2>2, OnceMore
  <2>5. QED
    BY <2>1, <2>3, <2>4
<1>6. Good = 0..n
  <2>1. n \in Nat /\ Good \in SUBSET (0..n)
    BY <1>1
  <2> HIDE DEF Good
  <2>2. QED
    BY <1>4, <1>5, <2>1, OneByOne
<1>7. n \in Good
  <2> HIDE DEF Good
  <2>1. n \in 0..n
    BY <1>1
  <2>2. QED
    BY <1>6, <2>1
<1>8. QED
  BY <1>1, <1>2, <1>3, <1>7 DEF n

-----------------------------------------------------------------------------
(* The pages that are nearest                                                  *)

LEMMA AtMostIs ==
  ASSUME NEW V, NEW n \in Nat, NEW seq \in Seq(V)
  PROVE  /\ AtMost(n, seq) \in Seq(V)
         /\ Len(AtMost(n, seq)) = (IF Len(seq) < n THEN Len(seq) ELSE n)
         /\ \A i \in 1..Len(AtMost(n, seq)) : i \in 1..Len(seq) /\ AtMost(n, seq)[i] = seq[i]
<1> DEFINE l == IF Len(seq) < n THEN Len(seq) ELSE n
<1>1. Len(seq) \in Nat /\ l \in Nat /\ l <= Len(seq) /\ \A i \in 1..Len(seq) : seq[i] \in V
  BY LenProperties, ElementOfSeq
<1>2. AtMost(n, seq) = [i \in 1..l |-> seq[i]]
  BY <1>1 DEF AtMost
<1>3. [i \in 1..l |-> seq[i]] \in Seq(V) /\ Len([i \in 1..l |-> seq[i]]) = l
  BY <1>1
<1>4. QED
  BY <1>1, <1>2, <1>3

(* What is fetched of a text are links of it that are allowed. *)
LEMMA FetchedAre ==
  ASSUME NEW V, NEW text \in Seq(V), NEW down
  PROVE  FetchAll(text, down) \in Seq(Links)
<1> DEFINE some == Only(Links \ Skipped, text)
<1>1. MaxLinks \in Nat
  BY TopicsAssumption
<1>2. some \in Seq(Links \ Skipped)
  BY OnlyOf
<1> HIDE DEF some
<1>3. Distinct(some) \in Seq(Links \ Skipped)
  BY <1>2, DistinctIs
<1>4. AtMost(MaxLinks, Urls(text)) \in Seq(Links \ Skipped)
  BY <1>1, <1>3, AtMostIs DEF Urls, some
<1>5. FetchAll(text, down) \in Seq({url \in Links : Fetched(url, down)})
  BY <1>4, OnlyOf DEF FetchAll
<1>6. QED
  BY <1>5, SeqMonotonic

(* What of the log the pages are taken from. *)
Behind(m) == IF m.thread = <<>> THEN Lately(m) ELSE m.thread

LEMMA BehindIs ==
  ASSUME NEW m \in Contexts
  PROVE  Behind(m) \in Seq(Logged)
<1>1. m.recent \in Seq(Logged) /\ m.thread \in Seq(Logged)
  BY DEF Contexts
<1> DEFINE recent == m.recent
           skipped == IF Len(recent) > Lookback THEN Len(recent) - Lookback ELSE 0
           kept == SubSeq(recent, skipped + 1, Len(recent))
           counting == {entry \in Range(recent) : ~entry.old}
<1>2. Lately(m) = Only(counting, kept)
  BY DEF Lately
<1>3. Lookback \in Nat /\ Len(recent) \in Nat
  BY <1>1, LenProperties, TopicsAssumption
<1>4. kept \in Seq(Logged)
  <2>1. skipped + 1 \in 1..(Len(recent) + 1) /\ Len(recent) \in 0..Len(recent)
    BY <1>3
  <2> HIDE DEF recent, skipped
  <2>2. QED
    BY <1>1, <1>3, <2>1, SubSeqProperties DEF recent
<1>5. counting \subseteq Logged
  <2>1. \A i \in DOMAIN recent : recent[i] \in Logged
    BY <1>1
  <2>2. QED
    BY <2>1 DEF Range
<1> HIDE DEF counting, kept
<1>6. Only(counting, kept) \in Seq(counting)
  BY <1>4, OnlyOf
<1>7. Lately(m) \in Seq(Logged)
  BY <1>2, <1>5, <1>6, SeqMonotonic
<1>8. QED
  BY <1>1, <1>7 DEF Behind

(* The pages of a log's entries, the newest first, are behind it by more than  *)
(* what the message holds and replies to.                                      *)
LogFar(n) == [i \in 1..n |-> i + 1]
Back(entries) == [i \in DOMAIN entries |-> Reverse(entries)[i].pages]

LEMMA LinkedLists ==
  ASSUME NEW entries \in Seq(Logged)
  PROVE  /\ Linked(entries) \in Seq(Links)
         /\ Lists(Linked(entries), Among(Back(entries), Links, Len(entries), LogFar(Len(entries))))
         /\ \A i \in 1..Len(entries) : Back(entries)[i] = entries[Len(entries) - i + 1].pages
<1> DEFINE n == Len(entries)
           seqs == Back(entries)
           far == LogFar(n)
<1>1. n \in Nat /\ DOMAIN entries = 1..n /\ \A i \in 1..n : entries[i].pages \in Seq(Links)
  <2>1. n \in Nat /\ DOMAIN entries = 1..n /\ \A i \in 1..n : entries[i] \in Logged
    BY LenProperties, ElementOfSeq
  <2> HIDE DEF n
  <2>2. QED
    BY <2>1 DEF Logged
<1>2. \A i \in 1..n : seqs[i] = entries[n - i + 1].pages
  BY <1>1 DEF Back, Reverse
<1>3. seqs = [i \in 1..n |-> seqs[i]]
  BY <1>1 DEF Back
<1>4. Linked(entries) = FlattenSeq(seqs)
  BY DEF Linked, Back
<1> HIDE DEF n, seqs
<1>5. \A i \in 1..n : seqs[i] \in Seq(Links)
  <2>1. \A i \in 1..n : n - i + 1 \in 1..n
    BY <1>1
  <2>2. QED
    BY <1>1, <1>2, <2>1
<1>6. seqs \in Seq(Seq(Links)) /\ Len(seqs) = n
  <2>1. seqs \in [1..n -> Seq(Links)]
    BY <1>3, <1>5
  <2>2. QED
    BY <1>1, <2>1, IsASeq, LenProperties
<1>7. far \in [1..n -> Nat] /\ \A i, j \in 1..n : i < j => far[i] <= far[j]
  BY <1>1 DEF LogFar
<1> HIDE DEF far
<1>8. FlattenSeq(seqs) \in Seq(Links) /\ Lists(FlattenSeq(seqs), Among(seqs, Links, n, far))
  BY <1>6, <1>7, ListsFlattened
<1>9. QED
  BY <1>2, <1>4, <1>8 DEF n, seqs, far

(* What the pages of a reply are taken from, and how far each is. *)
Own(m, down) == [i \in DOMAIN m.own |-> FetchAll(m.own[i], down)]
AllPages(m, down) == FlattenSeq(Own(m, down)) \o FetchAll(m.target.text, down) \o Linked(Behind(m))
NoFar(m) == [i \in 1..Len(m.own) |-> 0]
KnownPages(m, down) ==
  Among(Own(m, down), Links, Len(m.own), NoFar(m)) \union At(FetchAll(m.target.text, down), Links, 1)
    \union Among(Back(Behind(m)), Links, Len(Behind(m)), LogFar(Len(Behind(m))))

LEMMA KnownIsListed ==
  ASSUME NEW m \in Contexts, NEW down
  PROVE  /\ AllPages(m, down) \in Seq(Links) /\ Lists(AllPages(m, down), KnownPages(m, down))
         /\ KnownPages(m, down) \in SUBSET (Links \X Nat)
<1> DEFINE n == Len(m.own)
           seqs == Own(m, down)
           own == FlattenSeq(seqs)
           replied == FetchAll(m.target.text, down)
           logged == Linked(Behind(m))
           l == Len(Behind(m))
           R0 == Among(seqs, Links, n, NoFar(m))
           R1 == At(replied, Links, 1)
           R2 == Among(Back(Behind(m)), Links, l, LogFar(l))
<1>1. m.own \in Seq(Seq(STRING)) /\ m.target.text \in Seq(STRING)
  BY DEF Contexts
<1>2. n \in Nat /\ DOMAIN m.own = 1..n /\ \A i \in 1..n : m.own[i] \in Seq(STRING)
  BY <1>1, LenProperties, ElementOfSeq
<1>3. seqs = [i \in 1..n |-> FetchAll(m.own[i], down)]
  BY <1>2 DEF Own
<1>4. \A i \in 1..n : FetchAll(m.own[i], down) \in Seq(Links)
  BY <1>2, FetchedAre
<1>5. seqs \in Seq(Seq(Links)) /\ Len(seqs) = n
  <2>1. seqs \in [1..n -> Seq(Links)]
    BY <1>3, <1>4
  <2> HIDE DEF seqs, n
  <2>2. QED
    BY <1>2, <2>1, IsASeq, LenProperties
<1>6. NoFar(m) \in [1..n -> Nat] /\ \A i, j \in 1..n : NoFar(m)[i] <= NoFar(m)[j]
  BY DEF NoFar
<1> HIDE DEF n, seqs
<1>7. own \in Seq(Links) /\ Lists(own, R0)
  BY <1>5, <1>6, ListsFlattened
<1>8. replied \in Seq(Links)
  BY <1>1, FetchedAre
<1>9. Lists(replied, R1)
  BY <1>8, ListsAlone
<1>10. Behind(m) \in Seq(Logged)
  BY BehindIs
<1>11. logged \in Seq(Links) /\ Lists(logged, R2)
  BY <1>10, LinkedLists
<1>12. R0 \in SUBSET (Links \X Nat) /\ R1 \in SUBSET (Links \X Nat) /\ R2 \in SUBSET (Links \X Nat)
  BY DEF Among, At
<1>13. \A p \in R0 : p[2] = 0
  BY DEF Among, NoFar, n
<1>14. \A p \in R1 : p[2] = 1
  BY DEF At
<1>15. \A p \in R2 : p[2] >= 2
  BY DEF Among, LogFar
<1> HIDE DEF own, replied, logged, R0, R1, R2
<1>16. own \o replied \in Seq(Links) /\ Lists(own \o replied, R0 \union R1)
  <2>1. \A p \in R0, q \in R1 : p[2] <= q[2]
    BY <1>13, <1>14
  <2>2. QED
    BY <1>7, <1>8, <1>9, <1>12, <2>1, ListsJoined
<1>17. (own \o replied) \o logged \in Seq(Links) /\ Lists((own \o replied) \o logged, (R0 \union R1) \union R2)
  <2>1. ASSUME NEW p \in R0 \union R1, NEW q \in R2
        PROVE  p[2] <= q[2]
    <3>1. p[2] \in {0, 1} /\ q[2] >= 2 /\ q[2] \in Nat
      BY <1>12, <1>13, <1>14, <1>15
    <3>2. QED
      BY <3>1
  <2>2. R0 \union R1 \in SUBSET (Links \X Nat)
    BY <1>12
  <2>3. QED
    BY <1>11, <1>12, <1>16, <2>1, <2>2, ListsJoined
<1>18. QED
  BY <1>12, <1>17 DEF AllPages, KnownPages, own, replied, logged, R0, R1, R2, seqs, n, l

(* How far a page is known to be is what Distances says. *)
LEMMA KnownIsFar ==
  ASSUME NEW m \in Contexts, NEW down, NEW page \in Links
  PROVE  Distances(m, down, page) = {d \in Nat : <<page, d>> \in KnownPages(m, down)}
<1> DEFINE n == Len(m.own)
           replied == FetchAll(m.target.text, down)
           entries == Behind(m)
           l == Len(entries)
           Far0 == {0 : i \in {i \in DOMAIN m.own : Contains(FetchAll(m.own[i], down), page)}}
           Far1 == {1 : text \in {t \in {m.target.text} : Contains(FetchAll(t, down), page)}}
           Far2 == {2 + l - i : i \in {i \in DOMAIN entries : Contains(entries[i].pages, page)}}
           R0 == Among(Own(m, down), Links, n, NoFar(m))
           R1 == At(replied, Links, 1)
           R2 == Among(Back(entries), Links, l, LogFar(l))
<1>1. m.own \in Seq(Seq(STRING))
  BY DEF Contexts
<1>2. n \in Nat /\ DOMAIN m.own = 1..n
  BY <1>1, LenProperties
<1>3. entries \in Seq(Logged)
  BY BehindIs
<1>4. l \in Nat /\ DOMAIN entries = 1..l
  BY <1>3, LenProperties
<1>5. \A i \in 1..l : Back(entries)[i] = entries[l - i + 1].pages
  BY <1>3, LinkedLists
<1>6. Distances(m, down, page) = Far0 \union Far1 \union Far2
  BY DEF Distances, Behind
<1>7. KnownPages(m, down) = (R0 \union R1) \union R2
  BY DEF KnownPages
<1>8. ASSUME NEW d \in Nat
      PROVE  d \in Far0 <=> <<page, d>> \in R0
  <2>1. \A i \in 1..n : Own(m, down)[i] = FetchAll(m.own[i], down) /\ NoFar(m)[i] = 0
    BY <1>2 DEF Own, NoFar
  <2>2. <<page, d>> \in R0 <=> \E i \in 1..n : d = NoFar(m)[i] /\ Contains(Own(m, down)[i], page)
    BY DEF Among
  <2>3. d \in Far0 <=> d = 0 /\ \E i \in 1..n : Contains(FetchAll(m.own[i], down), page)
    BY <1>2
  <2>4. QED
    BY <2>1, <2>2, <2>3
<1>9. ASSUME NEW d \in Nat
      PROVE  d \in Far1 <=> <<page, d>> \in R1
  <2>1. <<page, d>> \in R1 <=> d = 1 /\ Contains(replied, page)
    BY DEF At
  <2>2. d \in Far1 <=> d = 1 /\ Contains(replied, page)
    OBVIOUS
  <2>3. QED
    BY <2>1, <2>2
<1>10. ASSUME NEW d \in Nat
       PROVE  d \in Far2 <=> <<page, d>> \in R2
  <2>1. <<page, d>> \in R2 <=> \E i \in 1..l : d = LogFar(l)[i] /\ Contains(Back(entries)[i], page)
    BY DEF Among
  <2>2. d \in Far2 <=> \E i \in 1..l : d = 2 + l - i /\ Contains(entries[i].pages, page)
    BY <1>4
  <2> HIDE DEF entries, l, R2, Far2
  <2>3. \A i \in 1..l : LogFar(l)[i] = i + 1
    BY DEF LogFar
  <2>4. ASSUME NEW i \in 1..l
        PROVE  l - i + 1 \in 1..l /\ 2 + l - (l - i + 1) = i + 1 /\ (l - (l - i + 1)) + 1 = i /\ 2 + l - i = (l - i + 1) + 1
    BY <1>4
  <2>5. ASSUME d \in Far2
        PROVE  <<page, d>> \in R2
    <3>1. PICK i \in 1..l : d = 2 + l - i /\ Contains(entries[i].pages, page)
      BY <2>2, <2>5
    <3>2. Back(entries)[l - i + 1] = entries[i].pages /\ LogFar(l)[l - i + 1] = d
      BY <1>5, <2>3, <2>4, <3>1
    <3>3. QED
      BY <2>1, <2>4, <3>1, <3>2
  <2>6. ASSUME <<page, d>> \in R2
        PROVE  d \in Far2
    <3>1. PICK i \in 1..l : d = LogFar(l)[i] /\ Contains(Back(entries)[i], page)
      BY <2>1, <2>6
    <3>2. d = 2 + l - (l - i + 1) /\ Contains(entries[l - i + 1].pages, page)
      BY <1>5, <2>3, <2>4, <3>1
    <3>3. QED
      BY <2>2, <2>4, <3>2
  <2>7. QED
    BY <2>5, <2>6
<1>11. Far0 \subseteq Nat /\ Far1 \subseteq Nat /\ Far2 \subseteq Nat
  <2>1. \A i \in 1..l : 2 + l - i \in Nat
    BY <1>4
  <2>2. QED
    BY <1>4, <2>1
<1> HIDE DEF Far0, Far1, Far2, R0, R1, R2
<1>12. QED
  BY <1>6, <1>7, <1>8, <1>9, <1>10, <1>11

(* One page is as near as another. *)
NearerIn(m, down, p, q) == \E d \in Distances(m, down, p) : \A e \in Distances(m, down, q) : d <= e

(* Each page once, in the order of how near it is. *)
LEMMA OnceByDistance ==
  ASSUME NEW m \in Contexts, NEW down
  PROVE  LET once == Distinct(AllPages(m, down))
         IN  /\ once \in Seq(Links)
             /\ \A i, j \in 1..Len(once) : i < j => once[i] # once[j] /\ NearerIn(m, down, once[i], once[j])
             /\ \A i \in 1..Len(once) : Distances(m, down, once[i]) # {}
             /\ \A page \in Links : Distances(m, down, page) # {} => \E i \in 1..Len(once) : once[i] = page
<1> DEFINE A == AllPages(m, down)
           K == KnownPages(m, down)
           once == Distinct(A)
           n == Len(A)
           l == Len(once)
<1>1. A \in Seq(Links) /\ Lists(A, K) /\ K \in SUBSET (Links \X Nat)
  BY KnownIsListed
<1>2. n \in Nat /\ \A k \in 1..n : A[k] \in Links
  BY <1>1, LenProperties, ElementOfSeq
<1>3. \A page \in Links : Distances(m, down, page) = {d \in Nat : <<page, d>> \in K}
  BY KnownIsFar
<1> HIDE DEF A, K
<1>4. once \in Seq(Links) /\ Once(A, n, once)
  BY <1>1, DistinctIs
<1> HIDE DEF n, once
<1>5. l \in Nat /\ \A i \in 1..l : once[i] \in Links
  BY <1>4, LenProperties, ElementOfSeq
<1>6. PICK first \in [1..l -> 1..n] : OnceOf(A, n, once, first)
  BY <1>4 DEF Once
<1>7. PICK away \in [1..n -> Nat] : ListedBy(A, K, away)
  BY <1>1 DEF Lists, n
<1> HIDE DEF l
<1>8. /\ \A i \in 1..l : once[i] = A[first[i]]
      /\ \A i, j \in 1..l : i < j => first[i] < first[j] /\ once[i] # once[j]
      /\ \A k \in 1..n : \E i \in 1..l : once[i] = A[k] /\ first[i] <= k
  BY <1>6 DEF OnceOf, l
<1>9. /\ \A k \in 1..n : <<A[k], away[k]>> \in K
      /\ \A k, j \in 1..n : k < j => away[k] <= away[j]
      /\ \A pair \in K : \E k \in 1..n : <<A[k], away[k]>> = pair
  BY <1>7 DEF ListedBy, n
<1>10. ASSUME NEW i \in 1..l
       PROVE  first[i] \in 1..n /\ away[first[i]] \in Distances(m, down, once[i])
  <2>1. first[i] \in 1..n
    BY <1>6
  <2>2. <<once[i], away[first[i]]>> \in K /\ away[first[i]] \in Nat
    BY <1>7, <1>8, <1>9, <2>1
  <2>3. QED
    BY <1>3, <1>5, <2>1, <2>2
<1>11. ASSUME NEW page \in Links, NEW d \in Distances(m, down, page)
       PROVE  \E i \in 1..l : once[i] = page /\ away[first[i]] <= d
  <2>1. <<page, d>> \in K /\ d \in Nat
    BY <1>3
  <2>2. PICK k \in 1..n : <<A[k], away[k]>> = <<page, d>>
    BY <1>9, <2>1
  <2>3. A[k] = page /\ away[k] = d
    BY <2>2
  <2>4. PICK i \in 1..l : once[i] = A[k] /\ first[i] <= k
    BY <1>8
  <2>5. away[first[i]] <= away[k]
    <3>1. first[i] \in 1..n /\ away[k] \in Nat /\ away[first[i]] \in Nat
      BY <1>6, <1>7
    <3>2. first[i] = k \/ first[i] < k
      BY <1>2, <2>4, <3>1
    <3>3. QED
      BY <1>9, <3>1, <3>2
  <2>6. QED
    BY <2>3, <2>4, <2>5
<1>12. ASSUME NEW i \in 1..l, NEW j \in 1..l, i < j
       PROVE  once[i] # once[j] /\ NearerIn(m, down, once[i], once[j])
  <2>1. once[i] # once[j] /\ first[i] < first[j] /\ first[i] \in 1..n /\ first[j] \in 1..n
    BY <1>6, <1>8, <1>12
  <2>2. away[first[i]] <= away[first[j]] /\ away[first[i]] \in Nat /\ away[first[j]] \in Nat
    BY <1>7, <1>9, <2>1
  <2>3. ASSUME NEW e \in Distances(m, down, once[j])
        PROVE  away[first[i]] <= e
    <3>1. PICK b \in 1..l : once[b] = once[j] /\ away[first[b]] <= e
      BY <1>5, <1>11
    <3>2. b = j
      <4>1. b \in Nat /\ j \in Nat
        BY <1>5
      <4>2. ~(b < j) /\ ~(j < b)
        BY <1>8, <3>1
      <4>3. QED
        BY <4>1, <4>2
    <3>3. e \in Nat
      BY <1>3, <1>5
    <3>4. QED
      BY <2>2, <3>1, <3>2, <3>3
  <2>4. QED
    BY <1>10, <2>1, <2>3 DEF NearerIn
<1>13. \A page \in Links : Distances(m, down, page) # {} => \E i \in 1..l : once[i] = page
  BY <1>11
<1>14. QED
  BY <1>4, <1>10, <1>12, <1>13 DEF l, once, A

(* What a reply is given is what was linked nearest. *)
LEMMA GatheredIsNearest ==
  ASSUME NEW m \in Contexts, NEW down, NEW event, NEW works, NEW lost
  PROVE  NearestMeant(m, down, Gathered(m, down, event, works, lost))
<1> DEFINE given == Gathered(m, down, event, works, lost)
           once == Distinct(AllPages(m, down))
           l == Len(given.pages)
           pages == Range(given.pages)
           known == {page \in Links : Distances(m, down, page) # {}}
<1>1. /\ once \in Seq(Links)
      /\ \A i, j \in 1..Len(once) : i < j => once[i] # once[j] /\ NearerIn(m, down, once[i], once[j])
      /\ \A i \in 1..Len(once) : Distances(m, down, once[i]) # {}
      /\ \A page \in Links : Distances(m, down, page) # {} => \E i \in 1..Len(once) : once[i] = page
  BY OnceByDistance
<1>2. given.pages = AtMost(MaxPages, once)
  <2>1. given.pages = PagesMeant(m, down)
    BY DEF Gathered
  <2>2. PagesMeant(m, down) = AtMost(MaxPages, once)
    BY DEF PagesMeant, AllPages, Own, Behind
  <2>3. QED
    BY <2>1, <2>2
<1>3. AtHand(m) => given.missing \/ "picture" \in given.shown
  BY DEF Gathered, AtHand, PictureMeant
<1> HIDE DEF given, once
<1>4. MaxPages \in Nat /\ Len(once) \in Nat
  BY <1>1, LenProperties, TopicsAssumption
<1>5. /\ given.pages \in Seq(Links) /\ l = (IF Len(once) < MaxPages THEN Len(once) ELSE MaxPages)
      /\ \A i \in 1..l : i \in 1..Len(once) /\ given.pages[i] = once[i]
  BY <1>1, <1>2, <1>4, AtMostIs
<1>6. l \in Nat /\ DOMAIN given.pages = 1..l /\ given.pages \in [1..l -> Links]
  BY <1>5, LenProperties
<1> HIDE DEF l
<1>7. \A page : page \in pages <=> \E i \in 1..l : page = once[i]
  BY <1>5, <1>6 DEF Range
<1>8. pages \subseteq known
  <2>1. \A i \in 1..l : once[i] \in Links /\ Distances(m, down, once[i]) # {}
    BY <1>1, <1>5, ElementOfSeq
  <2>2. QED
    BY <1>7, <2>1
<1>9. Cardinality(pages) = l
  <2>1. \A i, j \in 1..l : given.pages[i] = given.pages[j] => i = j
    <3>1. ASSUME NEW i \in 1..l, NEW j \in 1..l, given.pages[i] = given.pages[j]
          PROVE  i = j
      <4>1. i \in 1..Len(once) /\ j \in 1..Len(once) /\ once[i] = once[j]
        BY <1>5, <3>1
      <4>2. ~(i < j) /\ ~(j < i)
        BY <1>1, <4>1
      <4>3. QED
        BY <1>6, <4>2
    <3>2. QED
      BY <3>1
  <2>2. given.pages \in [1..l -> pages]
    BY <1>6 DEF Range
  <2>3. given.pages \in Injection(1..l, pages)
    BY <2>1, <2>2 DEF Injection, IsInjective
  <2>4. given.pages \in Surjection(1..l, pages)
    BY <1>6, <2>2 DEF Surjection, Range
  <2>5. ExistsBijection(1..l, pages)
    BY <2>3, <2>4 DEF ExistsBijection, Bijection
  <2> HIDE DEF pages
  <2>6. QED
    BY <1>6, <2>5, FS_CountingElements
<1>10. \A i, j \in 1..l : i < j => NearerIn(m, down, given.pages[i], given.pages[j])
  BY <1>1, <1>5
<1>11. ASSUME NEW page \in known \ pages
       PROVE  l = MaxPages /\ \A p \in pages : NearerIn(m, down, p, page)
  <2>1. PICK b \in 1..Len(once) : once[b] = page
    BY <1>1
  <2>2. b \notin 1..l
    BY <1>7, <2>1
  <2>3. b > l /\ l = MaxPages
    BY <1>4, <1>5, <1>6, <2>2
  <2>4. ASSUME NEW p \in pages
        PROVE  NearerIn(m, down, p, page)
    <3>1. PICK i \in 1..l : p = once[i]
      BY <1>7
    <3>2. i < b /\ i \in 1..Len(once)
      BY <1>4, <1>5, <1>6, <2>3
    <3>3. QED
      BY <1>1, <2>1, <3>1, <3>2
  <2>5. QED
    BY <2>3, <2>4
<1>12. Cardinality(pages) = Len(given.pages) /\ DOMAIN given.pages = 1..l
  BY <1>6, <1>9 DEF l
<1> HIDE DEF pages, known
<1>13. QED
  BY <1>3, <1>8, <1>9, <1>10, <1>11, <1>12 DEF NearestMeant, NearerIn, pages, known, given

-----------------------------------------------------------------------------
(* What a reply is given                                                       *)

Nearest == NearestMeant(topic.of, topic.down, topic.given)

LEMMA AloneIsOne == Alone \in Contexts
<1>1. <<<<>>>> \in Seq(Seq(STRING))
  <2>1. <<>> \in Seq(STRING)
    OBVIOUS
  <2> DEFINE D == Seq(STRING)
  <2> HIDE DEF D
  <2>2. \A d \in D : <<d>> \in Seq(D)
    OBVIOUS
  <2>3. QED
    BY <2>1, <2>2 DEF D
<1>2. <<>> \in Seq(Logged) /\ <<>> \in Seq(STRING)
  OBVIOUS
<1>3. NoTarget \in [there : BOOLEAN, picture : Pictures, text : Seq(STRING)]
  BY <1>2 DEF NoTarget, Pictures
<1> HIDE DEF NoTarget, Logged
<1>4. QED
  BY <1>1, <1>2, <1>3 DEF Alone, Contexts, Pictures

(* What a reply is given for a message is what is nearest to it. *)
LEMMA NearestOf ==
  ASSUME NEW m \in Contexts, NEW down, NEW event, NEW works, NEW lost, NEW t,
         t = [of |-> m, down |-> down, given |-> Gathered(m, down, event, works, lost)]
  PROVE  NearestMeant(t.of, t.down, t.given)
<1>1. t.of = m /\ t.down = down /\ t.given = Gathered(m, down, event, works, lost)
  OBVIOUS
<1>2. QED
  BY <1>1, GatheredIsNearest

LEMMA NoTopicIsNearest == NearestMeant(NoTopic.of, NoTopic.down, NoTopic.given)
<1>1. NoTopic = [of |-> Alone, down |-> {}, given |-> Gathered(Alone, {}, TRUE, TRUE, {})]
  BY DEF NoTopic
<1>2. QED
  BY <1>1, AloneIsOne, NearestOf

LEMMA TopicSteps ==
  ASSUME [Next]_vars
  PROVE  \/ topic' = topic \/ topic' = NoTopic
         \/ \E m \in Matters : \E down, event, works, lost :
              topic' = [of |-> m, down |-> down, given |-> Gathered(m, down, event, works, lost)]
<1>1. CASE ReplyGathered
  BY <1>1 DEF ReplyGathered
<1>2. CASE ~ReplyGathered
  BY <1>2 DEF Next, vars, Started, MessageLogged, ReplyBegins, ReplyGrounded,
       ReplyEnds, CommandBegins, CommandGoesOn, CommandEnds
<1>3. QED
  BY <1>1, <1>2

LEMMA NearestInvariant == Spec => []Nearest
<1>1. Init => Nearest
  BY NoTopicIsNearest DEF Init, Nearest
<1>2. Nearest /\ [Next]_vars => Nearest'
  <2>1. SUFFICES ASSUME Nearest, [Next]_vars
                 PROVE  Nearest'
    OBVIOUS
  <2>2. CASE topic' = topic
    BY <2>1, <2>2 DEF Nearest
  <2>3. CASE topic' = NoTopic
    BY <2>3, NoTopicIsNearest DEF Nearest
  <2>4. CASE \E m \in Matters : \E down, event, works, lost :
               topic' = [of |-> m, down |-> down, given |-> Gathered(m, down, event, works, lost)]
    <3>1. PICK m, down, event, works, lost, t :
            /\ m \in Matters /\ t = [of |-> m, down |-> down, given |-> Gathered(m, down, event, works, lost)]
            /\ topic' = t
      BY <2>4
    <3>2. m \in Contexts
      BY <3>1, AnswersAssumption
    <3>3. NearestMeant(t.of, t.down, t.given)
      BY <3>1, <3>2, NearestOf
    <3>4. QED
      BY <3>1, <3>3 DEF Nearest
  <2>5. QED
    BY <2>1, <2>2, <2>3, <2>4, TopicSteps
<1>3. QED
  BY <1>1, <1>2, PTL DEF Spec

(* A command is made from the messages that match what was asked for best, or  *)
(* from the film that was meant, and a reply from what was linked nearest, for *)
(* any log, any bounds and any results of the site's                           *)
(* (src/src/message_log.rs:512-564, src/src/handler.rs:371-419).               *)
THEOREM BestIsFound == Spec => []BestFound
<1>1. ASSUME CommandInv, LogInv, Nearest
      PROVE  BestFound
  <2>1. ASSUME CommandIn("looking"), Uses("message_search"), "failed" \notin command.told
        PROVE  BestMessages
    <3>1. Query \in Seq(Words)
      BY <1>1, <2>1, QueryIs DEF CommandInv, CommandIn
    <3>2. QED
      BY <1>1, <2>1, <3>1, SearchedIsBest DEF LogInv, ReadOfLog
  <2>2. ASSUME CommandIn("completing"), command.film # <<>>
        PROVE  FilmMeant
    BY <1>1, <2>2, PickedIsMeant DEF LogInv, ReadOfLog
  <2>3. QED
    BY <1>1, <2>1, <2>2 DEF BestFound, Nearest
<1>2. QED
  BY <1>1, CommandInvariant, LogInvariant, NearestInvariant, PTL

-----------------------------------------------------------------------------
(* The arguments a command is given                                            *)

(* A text that is cut in words, but for the last argument, is whole again. *)
Pieces(text, m, g) == [i \in 1..g |-> IF i = m THEN SubSeq(text, i, Len(text)) ELSE <<text[i]>>]

LEMMA CutText ==
  ASSUME NEW V, NEW text \in Seq(V), NEW m \in Nat, m # 0, NEW g \in Nat,
         g = (IF m < Len(text) THEN m ELSE Len(text))
  PROVE  FlattenSeq(Pieces(text, m, g)) = text
<1> DEFINE n == Len(text)
           seqs == Pieces(text, m, g)
           Cut(i) == IF i = m THEN text ELSE SubSeq(text, 1, i)
<1>1. n \in Nat /\ DOMAIN text = 1..n /\ g <= n /\ g <= m /\ \A i \in 1..n : text[i] \in V
  BY LenProperties, ElementOfSeq
<1>2. seqs = [i \in 1..g |-> IF i = m THEN SubSeq(text, i, Len(text)) ELSE <<text[i]>>]
  BY DEF Pieces
<1> HIDE DEF n, seqs
<1>3. ASSUME NEW i \in 1..g
      PROVE  seqs[i] \in Seq(V)
  <2>1. i \in 1..n /\ i \in Int /\ n \in Int
    BY <1>1
  <2>2. \A k \in i..n : text[k] \in V
    BY <1>1, <2>1
  <2>3. SubSeq(text, i, n) \in Seq(V)
    BY <2>1, <2>2, SubSeqProperties
  <2>4. <<text[i]>> \in Seq(V)
    <3>1. text[i] \in V
      BY <1>1, <2>1
    <3>2. QED
      BY <3>1
  <2>5. QED
    BY <1>2, <2>3, <2>4 DEF n
<1>4. seqs \in Seq(Seq(V)) /\ Len(seqs) = g
  <2> DEFINE D == Seq(V)
  <2>1. \A i \in 1..g : seqs[i] \in D
    BY <1>3
  <2>2. DOMAIN seqs = 1..g /\ seqs = [i \in 1..g |-> seqs[i]]
    BY <1>2
  <2> HIDE DEF D
  <2>3. seqs \in [1..g -> D]
    BY <2>1, <2>2
  <2>4. seqs \in Seq(D)
    <3>1. g \in Nat
      OBVIOUS
    <3>2. QED
      BY ONLY <2>3, <3>1, IsASeq
  <2>5. Len(seqs) = g
    BY <2>2, <2>4, LenProperties
  <2>6. QED
    BY <2>4, <2>5 DEF D
<1>5. PICK h \in [0..g -> Seq(V)] : FlattenedTo(seqs, V, g, h) /\ h[g] = FlattenSeq(seqs)
  BY <1>4, FlattenIs
<1>6. h[0] = <<>> /\ \A i \in 1..g : h[i] = h[i - 1] \o seqs[i]
  BY <1>5 DEF FlattenedTo
<1>7. ASSUME NEW i \in 1..g
      PROVE  SubSeq(text, 1, i - 1) \o seqs[i] = Cut(i)
  <2>1. i \in 1..n /\ i \in 1..m
    BY <1>1
  <2>2. /\ SubSeq(text, 1, i - 1) \in Seq(V) /\ Len(SubSeq(text, 1, i - 1)) = i - 1
        /\ \A k \in 1..(i - 1) : SubSeq(text, 1, i - 1)[k] = text[k]
    BY <1>1, <2>1, SubSeqProperties
  <2> DEFINE front == SubSeq(text, 1, i - 1)
  <2>3. CASE i = m
    <3> DEFINE rest == SubSeq(text, i, n)
    <3>1. rest \in Seq(V) /\ Len(rest) = n - i + 1 /\ \A k \in 1..(n - i + 1) : rest[k] = text[i + k - 1]
      BY <1>1, <2>1, SubSeqProperties
    <3> HIDE DEF front, rest
    <3>2. front \o rest \in Seq(V) /\ Len(front \o rest) = n
          /\ \A k \in 1..n : (front \o rest)[k] = IF k <= i - 1 THEN front[k] ELSE rest[k - (i - 1)]
      BY <1>1, <2>1, <2>2, <3>1, ConcatProperties DEF front
    <3>3. \A k \in 1..n : (front \o rest)[k] = text[k]
      <4>1. TAKE k \in 1..n
      <4>2. CASE k <= i - 1
        BY <1>1, <2>1, <2>2, <3>2, <4>2 DEF front
      <4>3. CASE ~(k <= i - 1)
        <5>1. k - (i - 1) \in 1..(n - i + 1) /\ i + (k - (i - 1)) - 1 = k
          BY <1>1, <2>1, <4>3
        <5>2. QED
          BY <3>1, <3>2, <4>3, <5>1
      <4>4. QED
        BY <4>2, <4>3
    <3>4. front \o rest = text
      BY <3>2, <3>3, SeqEqual DEF n
    <3>5. seqs[i] = rest
      BY <1>2, <2>3 DEF rest, n
    <3>6. QED
      BY <2>3, <3>4, <3>5 DEF front
  <2>4. CASE i # m
    <3>1. seqs[i] = <<text[i]>> /\ text[i] \in V
      BY <1>1, <1>2, <2>1, <2>4
    <3>2. SubSeq(text, 1, i) \in Seq(V) /\ Len(SubSeq(text, 1, i)) = i
          /\ \A k \in 1..i : SubSeq(text, 1, i)[k] = text[k]
      BY <1>1, <2>1, SubSeqProperties
    <3> HIDE DEF front
    <3>3. front \o <<text[i]>> \in Seq(V) /\ Len(front \o <<text[i]>>) = i
          /\ \A k \in 1..i : (front \o <<text[i]>>)[k] = text[k]
      BY <1>1, <2>1, <2>2, <3>1 DEF front
    <3>4. front \o <<text[i]>> = SubSeq(text, 1, i)
      BY <3>2, <3>3, SeqEqual
    <3>5. QED
      BY <2>4, <3>1, <3>4 DEF front
  <2>5. QED
    BY <2>3, <2>4
<1> DEFINE Good == {i \in 0..g : h[i] = Cut(i)}
<1>8. Good = 0..g
  <2>1. 0 \in Good
    <3>1. SubSeq(text, 1, 0) = <<>>
      OBVIOUS
    <3>2. Cut(0) = <<>> /\ 0 \in 0..g
      BY <3>1
    <3>3. QED
      BY <1>6, <3>2
  <2>2. ASSUME NEW i \in 1..g, i - 1 \in Good
        PROVE  i \in Good
    <3>1. i - 1 # m /\ i \in 0..g
      BY <1>1
    <3>2. h[i - 1] = SubSeq(text, 1, i - 1)
      BY <2>2, <3>1
    <3>3. h[i] = Cut(i)
      BY <1>6, <1>7, <3>2
    <3>4. QED
      BY <3>1, <3>3
  <2>3. Good \in SUBSET (0..g)
    OBVIOUS
  <2> HIDE DEF Good
  <2>4. QED
    BY <2>1, <2>2, <2>3, OneByOne
<1>9. h[g] = Cut(g)
  <2>1. g \in Good
    <3> HIDE DEF Good
    <3>1. QED
      BY <1>8
  <2>2. QED
    BY <2>1
<1>10. Cut(g) = text
  <2>1. CASE g = m
    BY <2>1
  <2>2. CASE g # m
    <3>1. g = n
      BY <2>2 DEF n
    <3>2. SubSeq(text, 1, n) = text
      BY DEF n
    <3>3. QED
      BY <2>2, <3>1, <3>2
  <2>3. QED
    BY <2>1, <2>2
<1>11. QED
  BY <1>5, <1>9, <1>10 DEF seqs

(* What is resolved is what was given, each of its type and within its bounds, *)
(* and a default for what was not; together it is the whole message.           *)
RightFor(specs, args, text) ==
  LET given == {i \in DOMAIN specs : i <= Len(text)}
  IN /\ \A i \in DOMAIN specs : specs[i].required => i \in DOMAIN args
     /\ \A i \in given : Matches(specs[i], args[i]) /\ InBounds(specs[i], args[i])
     /\ \A i \in DOMAIN args \ given : args[i] = specs[i].default
     /\ specs # <<>> =>
          FlattenSeq([i \in 1..Cardinality(given) |-> args[i].raw]) = text

LEMMA ResolvedIsRight ==
  ASSUME NEW specs \in Seq(Specs), NEW text \in Seq(Words), ~Wrong(specs, ParseArgs(specs, text))
  PROVE  RightFor(specs, Resolved(specs, ParseArgs(specs, text)), text)
<1> DEFINE parsed == ParseArgs(specs, text)
           args == Resolved(specs, parsed)
           given == {i \in DOMAIN specs : i <= Len(text)}
           m == Len(specs)
           n == Len(text)
           g == IF m < n THEN m ELSE n
           raw(i) == IF i = m THEN SubSeq(text, i, n) ELSE <<text[i]>>
<1>1. n \in Nat /\ m \in Nat /\ DOMAIN specs = 1..m /\ g \in Nat /\ (m = 0 => specs = <<>>)
  BY LenProperties, EmptySeq
<1>2. given = 1..g /\ Cardinality(given) = g
  <2>1. given = 1..g
    BY <1>1
  <2>2. Cardinality(1..g) = g
    <3> HIDE DEF g
    <3>1. QED
      BY <1>1, FS_Interval
  <2>3. QED
    BY <2>1, <2>2
<1>3. DOMAIN parsed = given /\ \A i \in given : parsed[i] = ParseArg(specs[i].kind, raw(i))
  BY DEF ParseArgs
<1>4. /\ given \subseteq DOMAIN args
      /\ \A i \in DOMAIN args : args[i] = IF i \in given THEN parsed[i] ELSE specs[i].default
  BY <1>3 DEF Resolved
<1>5. \A i \in DOMAIN specs :
        IF i \in given THEN Matches(specs[i], parsed[i]) /\ InBounds(specs[i], parsed[i])
        ELSE ~specs[i].required
  BY <1>3 DEF Wrong
<1>6. \A i \in given : args[i].raw = raw(i)
  <2>1. TAKE i \in given
  <2>2. args[i] = ParseArg(specs[i].kind, raw(i))
    BY <1>3, <1>4
  <2> HIDE DEF args, raw
  <2>3. QED
    BY <2>2 DEF ParseArg, Value
<1> HIDE DEF parsed, args, given
<1>7. specs # <<>> => FlattenSeq([i \in 1..g |-> args[i].raw]) = text
  <2>1. SUFFICES ASSUME specs # <<>>
                 PROVE  FlattenSeq([i \in 1..g |-> args[i].raw]) = text
    OBVIOUS
  <2>2. [i \in 1..g |-> args[i].raw] = [i \in 1..g |-> raw(i)]
    BY <1>2, <1>6
  <2>3. m # 0
    BY <1>1, <2>1
  <2>4. FlattenSeq([i \in 1..g |-> IF i = m THEN SubSeq(text, i, Len(text)) ELSE <<text[i]>>]) = text
    <3>1. g = (IF m < Len(text) THEN m ELSE Len(text)) /\ m \in Nat /\ g \in Nat
      BY <1>1
    <3> HIDE DEF g, m
    <3>2. FlattenSeq(Pieces(text, m, g)) = text
      BY <2>3, <3>1, CutText
    <3>3. QED
      BY <3>2 DEF Pieces, m
  <2>5. QED
    BY <2>2, <2>4
<1>8. /\ \A i \in DOMAIN specs : specs[i].required => i \in DOMAIN args
      /\ \A i \in given : Matches(specs[i], args[i]) /\ InBounds(specs[i], args[i])
      /\ \A i \in DOMAIN args \ given : args[i] = specs[i].default
  <2>1. given \subseteq DOMAIN specs
    BY DEF given
  <2>2. QED
    BY <1>4, <1>5, <2>1
<1>9. specs # <<>> => FlattenSeq([i \in 1..Cardinality(given) |-> args[i].raw]) = text
  BY <1>2, <1>7
<1> HIDE DEF g, m
<1>10. RightFor(specs, args, text)
  BY <1>8, <1>9 DEF RightFor, given
<1>11. QED
  BY <1>10 DEF args, parsed

(* A command that goes on was found to be right. *)
Checked ==
  command.phase \in {"reading", "looking", "completing"} =>
    command.args = Resolved(Skill.args, Given) /\ ~Wrong(Skill.args, Given)

LEMMA SameSkill ==
  ASSUME UNCHANGED registry, command'.name = command.name, command'.text = command.text
  PROVE  Skill' = Skill /\ Given' = Given
  BY DEF Skill, Given

LEMMA CheckedSteps ==
  ASSUME CommandInv, Checked, [Next]_vars
  PROVE  Checked'
<1>1. DOMAIN command = CommandFields /\ Running /\ Filled /\ Pictured
  BY DEF CommandInv, Running
<1>2. CASE UNCHANGED <<installed, registry, command>>
  <2>1. Skill' = Skill /\ Given' = Given
    BY <1>2, SameSkill
  <2>2. QED
    BY <1>2, <2>1 DEF Checked
<1>3. CASE LoadSkills
  <2>1. command'.phase = "none"
    BY <1>1, <1>3, NoCommandIs DEF LoadSkills, Running, Ready, CommandIn
  <2>2. QED
    BY <2>1 DEF Checked
<1>4. CASE GiveCommand
  BY <1>4, GivenIs DEF Checked
<1>5. CASE CheckCommand
  <2>1. Skill' = Skill /\ Given' = Given
    BY <1>1, <1>5, CheckedIs, SameSkill
  <2>2. QED
    BY <1>1, <1>5, <2>1, CheckedIs DEF Checked
<1>6. CASE ReadRoom
  <2>1. Skill' = Skill /\ Given' = Given
    BY <1>1, <1>6, ReadIs, SameSkill
  <2>2. command'.args = command.args /\ command.phase = "reading"
    BY <1>1, <1>6, ReadIs DEF CommandIn
  <2>3. QED
    BY <2>1, <2>2 DEF Checked
<1>7. CASE LookUp
  <2>1. command.phase = "looking" /\ command.told \intersect {"photos", "posters", "title"} = {}
    BY <1>1, <1>7 DEF LookUp, CommandIn, Pictured
  <2>2. command'.args = command.args /\ Skill' = Skill /\ Given' = Given
    BY <1>1, <1>7, <2>1, LookedUpIs, SameSkill
  <2>3. QED
    BY <2>1, <2>2 DEF Checked
<1>8. CASE Complete
  BY <1>1, <1>8, CompletedIs DEF Checked
<1>9. CASE AnswerCommand
  BY <1>9, AnsweredIs, NoCommandIs DEF Checked
<1>10. QED
  BY <1>2, <1>3, <1>4, <1>5, <1>6, <1>7, <1>8, <1>9, CommandSteps DEF CommandStep

LEMMA CheckedInvariant == Spec => []Checked
<1>1. Init => Checked
  BY NoCommandIs DEF Init, CommandsInit, Checked
<1>2. CommandInv /\ Checked /\ [Next]_vars => Checked'
  BY CheckedSteps
<1>3. QED
  BY <1>1, <1>2, CommandInvariant, PTL DEF Spec

(* A command is run with the arguments that its skill declares, whatever the   *)
(* files declare and whatever the message says                                 *)
(* (src/src/skills.rs:387-437, 467-481).                                       *)
THEOREM ArgumentsAreRight == Spec => []RightArguments
<1>1. ASSUME CommandInv, Checked
      PROVE  RightArguments
  <2>1. SUFFICES ASSUME command.phase \in {"reading", "looking", "completing"}
                 PROVE  RightFor(Skill.args, command.args, command.text)
    BY DEF RightArguments, RightFor
  <2>2. Ready /\ Has(registry, command.name) /\ command.text \in Seq(Words)
    BY <1>1, <2>1 DEF CommandInv, Running, CommandIn
  <2>3. Skill \in Files
    BY <1>1, <2>2, SkillIsInstalled DEF CommandInv, Skill
  <2>4. Skill.args \in Seq(Specs)
    BY <2>3 DEF Files
  <2>5. command.args = Resolved(Skill.args, ParseArgs(Skill.args, command.text))
        /\ ~Wrong(Skill.args, ParseArgs(Skill.args, command.text))
    BY <1>1, <2>1 DEF Checked, Given
  <2>6. QED
    BY <2>2, <2>4, <2>5, ResolvedIsRight
<1>2. QED
  BY <1>1, CommandInvariant, CheckedInvariant, PTL

(* A command runs the skill that was named, with the arguments that were       *)
(* given, Claude is told of the pictures that are posted, and what is told of  *)
(* the numbers was counted without private rooms and agrees                    *)
(* (src/src/handler.rs:1584-1626, src/src/skills.rs:467-686).                  *)
THEOREM CommandsAreAsGiven == Spec => []CommandsAsGiven
<1>1. CommandInv => PicturesAnnounced
  BY DEF CommandInv, Pictured
<1>2. RightSkill /\ RightArguments /\ PicturesAnnounced /\ PrivateUncounted /\ CountsAgree => CommandsAsGiven
  BY DEF CommandsAsGiven
<1>3. QED
  BY <1>1, <1>2, CommandInvariant, SkillsAreRight, ArgumentsAreRight, PrivateIsNotCounted, CountsAreConsistent, PTL
=============================================================================
