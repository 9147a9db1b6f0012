--------------------------- MODULE DeliveryProofs ---------------------------
(***************************************************************************)
(* Proofs about Delivery and Analyzer: types, with the bounds of the two   *)
(* channels, the budget of a day and the spread of failures, for any       *)
(* alerts, keys, limits and capacities.                                    *)
(***************************************************************************)
EXTENDS Delivery, FiniteSetTheorems, TLAPS

\* The events of a day among those that have passed.
OnDay(events, d) == {p \in events : DayOf(p.at) = d}

\* The count of the day is that of the last day on which an event got as far,
\* and covers all that have passed on it.
BudgetInv ==
    /\ IsFiniteSet(passed)
    /\ dayKey <= DayOf(now)
    /\ \A p \in passed : DayOf(p.at) <= dayKey
    /\ Cardinality(OnDay(passed, dayKey)) <= dayCount
    /\ \A d \in 1 .. DayOf(MaxTime) : Cardinality(OnDay(passed, d)) <= DailyMax

\* The analyzer has one alert in hand at a time, which has found the breaker
\* closed.
OneInHand ==
    /\ \A e, f \in Event : stage[e] \in Analysing /\ stage[f] \in Analysing => e = f
    /\ (\E e \in Event : stage[e] \in Analysing) => ~Open

Strikes == IF BreakerFails = 0 THEN 1 ELSE BreakerFails

\* All failures but those of the present streak lie before the last opening of
\* the breaker.
StreakInv ==
    /\ failStrk < Strikes /\ failStrk <= Len(failures)
    /\ \A i \in 1 .. Len(failures) :
        /\ failures[i] <= now
        /\ i <= Len(failures) - failStrk => failures[i] + BreakerOpen <= openUntil
        /\ i > Strikes => failures[i] - failures[i - Strikes] >= BreakerOpen

IInv == TypeOK /\ BudgetInv /\ OneInHand /\ StreakInv

-----------------------------------------------------------------------------
(* Days                                                                    *)

\* A later time is not of an earlier day.
LEMMA DaysGoOn ==
    ASSUME NEW s \in Nat, NEW t \in Nat, s <= t
    PROVE  DayOf(s) \in Nat \ {0} /\ DayOf(s) <= DayOf(t)
<1>1. DayLength \in Nat \ {0}
  BY AnalyzerAssumption
<1>2. /\ s \div DayLength \in Int /\ t \div DayLength \in Int
      /\ s \div DayLength >= 0 /\ s \div DayLength <= t \div DayLength
  BY <1>1, SMTT(30)
<1>. QED  BY <1>2 DEF DayOf

\* The present day is one of those that TLC's clock can reach.
LEMMA Present ==
    ASSUME now \in Time
    PROVE  /\ now \in Nat \ {0} /\ MaxTime \in Nat
           /\ DayOf(now) \in 1 .. DayOf(MaxTime) /\ DayOf(MaxTime) \in Nat
<1>1. now \in Nat \ {0} /\ MaxTime \in Nat /\ now <= MaxTime
  BY AnalyzerAssumption DEF Time
<1>2. DayOf(now) \in Nat \ {0} /\ DayOf(now) <= DayOf(MaxTime) /\ DayOf(MaxTime) \in Nat \ {0}
  BY <1>1, DaysGoOn
<1>. QED  BY <1>1, <1>2

-----------------------------------------------------------------------------
(* Steps and stages                                                        *)

\* The cases of a step, for the proofs that go through them.
LEMMA StepCases ==
    ASSUME [Next]_vars
    PROVE  \/ \E e \in Event : \/ Fire(e) \/ Post(e) \/ Repost(e) \/ Emit(e)
                               \/ Save(e) \/ Submit(e)
                               \/ History(e) \/ Answer(e) \/ Fail(e)
           \/ Take \/ Handle \/ Stop \/ Cancel \/ Exit \/ Tick \/ UNCHANGED vars
BY DEF Next

\* An alert that moves changes its own stage only.
LEMMA Moved ==
    ASSUME stage \in [Event -> Stage], NEW e \in Event, NEW from, NEW to \in Stage,
           Move(e, from, to)
    PROVE  /\ stage' \in [Event -> Stage]
           /\ stage[e] = from /\ stage'[e] = to
           /\ \A f \in Event : f # e => stage'[f] = stage[f]
BY DEF Move

\* The steps that the analyzer's state has no part in.
Outside ==
    \/ \E e \in Event : \/ Fire(e) \/ Post(e) \/ Repost(e) \/ Emit(e) \/ Save(e) \/ Submit(e)
    \/ Take \/ Stop \/ Cancel \/ Exit \/ UNCHANGED vars

\* Such a step moves no alert into the hands of the analyzer or out of them.
LEMMA OutsideKeeps ==
    ASSUME DeliveryTypeOK, Outside
    PROVE  /\ UNCHANGED <<now, analyzer>>
           /\ stage' \in [Event -> Stage]
           /\ \A e \in Event : stage'[e] \in Analysing <=> stage[e] \in Analysing
<1>. USE DEF Analysing, Stage
<1>0. stage \in [Event -> Stage]
  BY DEF DeliveryTypeOK
<1>1. ASSUME NEW e \in Event, Fire(e) \/ Post(e) \/ Repost(e) \/ Emit(e) \/ Save(e) \/ Submit(e)
      PROVE  /\ UNCHANGED <<now, analyzer>>
             /\ \E from \in Stage \ Analysing, to \in Stage \ Analysing : Move(e, from, to)
  BY <1>1 DEF Fire, Post, Repost, Emit, Save, Submit
<1>2. ASSUME Take
      PROVE  /\ UNCHANGED <<now, analyzer>> /\ Head(emitCh) \in Event
             /\ \E from \in Stage \ Analysing, to \in Stage \ Analysing : Move(Head(emitCh), from, to)
  BY <1>2 DEF Take, DeliveryTypeOK
<1>3. ASSUME NEW e \in Event, NEW from \in Stage \ Analysing, NEW to \in Stage \ Analysing,
             Move(e, from, to)
      PROVE  /\ stage' \in [Event -> Stage]
             /\ \A f \in Event : stage'[f] \in Analysing <=> stage[f] \in Analysing
  BY <1>0, <1>3, Moved
<1>4. CASE Stop \/ Cancel \/ Exit \/ UNCHANGED vars
  BY <1>0, <1>4 DEF Stop, Cancel, Exit, vars, delivery
<1>. QED  BY <1>1, <1>2, <1>3, <1>4 DEF Outside

-----------------------------------------------------------------------------
(* Types                                                                   *)

\* The process starts with no alert, an empty memory and empty channels.
LEMMA TypeInit == Init => TypeOK
<1>. SUFFICES ASSUME Init PROVE TypeOK
  OBVIOUS
<1>1. now \in Time
  BY AnalyzerAssumption DEF Init, AnalyzerInit, Time
<1>2. AnalyzerTypeOK
  <2>1. /\ failStrk \in 0 .. BreakerFails /\ openUntil \in 0 .. MaxTime + BreakerOpen
        /\ dayKey \in 0 .. DayOf(MaxTime) /\ dayCount \in 0 .. DailyMax
    BY <1>1, Present, AnalyzerAssumption DEF Init, AnalyzerInit
  <2>2. lastRun \in [Key -> Time \cup {Never}] /\ passed = {} /\ failures \in Seq(Time)
    BY DEF Init, AnalyzerInit
  <2>. QED  BY <1>1, <2>1, <2>2 DEF AnalyzerTypeOK
<1>3. stage \in [Event -> Stage]
  BY DEF Init, Stage
<1>4. /\ emitCh \in Seq(Event) /\ Len(emitCh) <= EmitCap
      /\ queue \in Seq(Event) /\ Len(queue) <= QueueCap
  BY DeliveryAssumption DEF Init
<1>5. stopped \in BOOLEAN /\ ctxDone \in BOOLEAN /\ exited \in BOOLEAN
  BY Zenon DEF Init
<1>. QED  BY <1>2, <1>3, <1>4, <1>5 DEF TypeOK, DeliveryTypeOK

\* What the gate and the answer of the model leave behind is of the same types.
LEMMA AnalyzerTypeStep ==
    ASSUME AnalyzerTypeOK, UNCHANGED now, NEW e \in Event,
           GateRefuses(e) \/ GatePasses(e) \/ OnFail \/ OnOK
    PROVE  AnalyzerTypeOK'
<1>. USE DEF AnalyzerTypeOK
<1>0. /\ DayOf(now) \in 1 .. DayOf(MaxTime) /\ DayOf(MaxTime) \in Nat
      /\ now \in Nat \ {0} /\ MaxTime \in Nat /\ now <= MaxTime
      /\ DailyMax \in Nat \ {0} /\ BreakerFails \in Nat /\ BreakerOpen \in Nat
      /\ KeyOf[e] \in Key
  BY Present, AnalyzerAssumption DEF Time
<1>1. CASE GateRefuses(e)
  <2>1. dayKey' \in 0 .. DayOf(MaxTime) /\ dayCount' \in 0 .. DailyMax
    BY <1>0, <1>1 DEF GateRefuses, Today
  <2>. QED  BY <1>1, <2>1 DEF GateRefuses
<1>2. CASE GatePasses(e)
  <2>1. dayKey' \in 0 .. DayOf(MaxTime) /\ dayCount' \in 0 .. DailyMax
    BY <1>0, <1>2 DEF GatePasses, Today, Full
  <2>2. lastRun' \in [Key -> Time \cup {Never}]
    BY <1>0, <1>2 DEF GatePasses
  <2>3. passed' \subseteq [event : Event, at : Time]
    BY <1>2 DEF GatePasses
  <2>. QED  BY <1>2, <2>1, <2>2, <2>3 DEF GatePasses
<1>3. CASE OnFail
  <2>1. failStrk' \in 0 .. BreakerFails /\ openUntil' \in 0 .. MaxTime + BreakerOpen
    BY <1>0, <1>3 DEF OnFail
  <2>2. failures' \in Seq(Time)
    BY <1>3 DEF OnFail
  <2>. QED  BY <1>3, <2>1, <2>2 DEF OnFail
<1>4. CASE OnOK
  <2>1. failStrk' \in 0 .. BreakerFails /\ failures' \in Seq(Time)
    BY <1>0, <1>4 DEF OnOK
  <2>. QED  BY <1>4, <2>1 DEF OnOK
<1>. QED  BY <1>1, <1>2, <1>3, <1>4

\* A channel with room takes one more, and the one that is taken leaves the rest.
LEMMA Channel ==
    ASSUME NEW q \in Seq(Event), NEW cap \in Nat, Len(q) <= cap
    PROVE  /\ \A e \in Event : Len(q) < cap =>
                  Append(q, e) \in Seq(Event) /\ Len(Append(q, e)) <= cap
           /\ q # <<>> => Head(q) \in Event /\ Tail(q) \in Seq(Event) /\ Len(Tail(q)) <= cap
OBVIOUS

\* Every step keeps the types of the stages, the channels and the flags.
LEMMA DeliveryTypeStep == DeliveryTypeOK /\ [Next]_vars => DeliveryTypeOK'
<1>. SUFFICES ASSUME DeliveryTypeOK, [Next]_vars PROVE DeliveryTypeOK'
  OBVIOUS
<1>0. /\ stage \in [Event -> Stage] /\ stopped \in BOOLEAN /\ ctxDone \in BOOLEAN /\ exited \in BOOLEAN
      /\ emitCh \in Seq(Event) /\ Len(emitCh) <= EmitCap /\ EmitCap \in Nat
      /\ queue \in Seq(Event) /\ Len(queue) <= QueueCap /\ QueueCap \in Nat
  BY DeliveryAssumption DEF DeliveryTypeOK
<1>1. stage' \in [Event -> Stage]
  <2>1. CASE Outside
    BY <2>1, OutsideKeeps
  <2>2. ASSUME NEW e \in Event, History(e) \/ Answer(e) \/ Fail(e) PROVE stage' \in [Event -> Stage]
    <3>1. \E from \in Stage, to \in Stage : Move(e, from, to)
      BY <2>2 DEF History, Answer, Fail, Stage
    <3>. QED  BY <1>0, <3>1, Moved
  <2>3. CASE Handle
    <3>1. Head(queue) \in Event
      BY <1>0, <2>3 DEF Handle
    <3>2. \E from \in Stage, to \in Stage : Move(Head(queue), from, to)
      BY <2>3 DEF Handle, Stage
    <3>. QED  BY <1>0, <3>1, <3>2, Moved
  <2>4. CASE Tick
    BY <1>0, <2>4 DEF Tick, delivery
  <2>. QED  BY <2>1, <2>2, <2>3, <2>4, StepCases DEF Outside
<1>2. emitCh' \in Seq(Event) /\ Len(emitCh') <= EmitCap
  <2>1. ASSUME NEW e \in Event, Emit(e) PROVE emitCh' \in Seq(Event) /\ Len(emitCh') <= EmitCap
    BY <1>0, <2>1, Channel DEF Emit
  <2>2. CASE Take
    BY <1>0, <2>2, Channel DEF Take
  <2>3. CASE UNCHANGED emitCh
    BY <1>0, <2>3
  <2>. QED
    BY <2>1, <2>2, <2>3, StepCases
    DEF Fire, Post, Repost, Save, Submit, History, Answer, Fail, Handle, Stop, Cancel, Exit, Tick,
        vars, delivery
<1>3. queue' \in Seq(Event) /\ Len(queue') <= QueueCap
  <2>1. ASSUME NEW e \in Event, Submit(e) PROVE queue' \in Seq(Event) /\ Len(queue') <= QueueCap
    BY <1>0, <2>1, Channel DEF Submit
  <2>2. CASE Handle
    BY <1>0, <2>2, Channel DEF Handle
  <2>3. CASE UNCHANGED queue
    BY <1>0, <2>3
  <2>. QED
    BY <2>1, <2>2, <2>3, StepCases
    DEF Fire, Post, Repost, Save, Emit, History, Answer, Fail, Take, Stop, Cancel, Exit, Tick,
        vars, delivery
<1>4. stopped' \in BOOLEAN /\ ctxDone' \in BOOLEAN /\ exited' \in BOOLEAN
  <2>1. CASE Stop \/ Cancel \/ Exit
    BY <1>0, <2>1, Zenon DEF Stop, Cancel, Exit
  <2>2. CASE UNCHANGED <<stopped, ctxDone, exited>>
    BY <1>0, <2>2, Zenon
  <2>. QED
    BY <2>1, <2>2, StepCases
    DEF Fire, Post, Repost, Save, Emit, Submit, History, Answer, Fail, Take, Handle, Tick,
        vars, delivery
<1>. QED  BY <1>1, <1>2, <1>3, <1>4 DEF DeliveryTypeOK

\* What the steps with a part of the analyzer's state do to it.
LEMMA AnalyzerSteps ==
    ASSUME DeliveryTypeOK, [Next]_vars
    PROVE  \/ Outside
           \/ Tick
           \/ UNCHANGED now /\ Handle /\ queue # <<>> /\ Head(queue) \in Event
           \/ \E e \in Event : UNCHANGED now /\ (History(e) \/ Answer(e) \/ Fail(e))
<1>1. Handle => UNCHANGED now /\ queue # <<>> /\ Head(queue) \in Event
  BY DEF Handle, DeliveryTypeOK
<1>2. \A e \in Event : History(e) \/ Answer(e) \/ Fail(e) => UNCHANGED now
  BY DEF History, Answer, Fail
<1>. QED  BY <1>1, <1>2, StepCases DEF Outside

\* Every step keeps the types.
LEMMA TypeStep == TypeOK /\ [Next]_vars => TypeOK'
<1>. SUFFICES ASSUME AnalyzerTypeOK, DeliveryTypeOK, [Next]_vars PROVE AnalyzerTypeOK'
  BY DeliveryTypeStep DEF TypeOK
<1>1. CASE UNCHANGED <<now, analyzer>>
  BY <1>1 DEF analyzer, AnalyzerTypeOK
<1>2. CASE Tick
  <2>1. now' \in Time
    BY <1>2, AnalyzerAssumption DEF Tick, AnalyzerTypeOK, Time
  <2>. QED  BY <1>2, <2>1 DEF Tick, analyzer, AnalyzerTypeOK
<1>3. CASE UNCHANGED now /\ Handle /\ queue # <<>> /\ Head(queue) \in Event
  BY <1>3, AnalyzerTypeStep DEF Handle
<1>4. ASSUME NEW e \in Event, UNCHANGED now, History(e) \/ Answer(e) \/ Fail(e) PROVE AnalyzerTypeOK'
  BY <1>1, <1>4, AnalyzerTypeStep DEF History, Answer, Fail
<1>. QED  BY <1>1, <1>2, <1>3, <1>4, AnalyzerSteps, OutsideKeeps

-----------------------------------------------------------------------------
(* The budget of a day                                                     *)

\* One event more is one more on its own day.
LEMMA OneMore ==
    ASSUME NEW events, IsFiniteSet(events), NEW p, NEW d
    PROVE  /\ IsFiniteSet(events \cup {p})
           /\ Cardinality(OnDay(events, d)) \in Nat
           /\ Cardinality(OnDay(events \cup {p}, d)) \in Nat
           /\ Cardinality(OnDay(events \cup {p}, d)) <= Cardinality(OnDay(events, d)) + 1
           /\ DayOf(p.at) # d => OnDay(events \cup {p}, d) = OnDay(events, d)
<1>1. IsFiniteSet(OnDay(events, d)) /\ Cardinality(OnDay(events, d)) \in Nat
  <2>1. OnDay(events, d) \subseteq events
    BY DEF OnDay
  <2>. QED  BY <2>1, FS_Subset, FS_CardinalityType
<1>2. IsFiniteSet(events \cup {p})
  BY FS_AddElement
<1>3. CASE DayOf(p.at) = d
  <2>1. OnDay(events \cup {p}, d) = OnDay(events, d) \cup {p}
    BY <1>3 DEF OnDay
  <2>. DEFINE n == Cardinality(OnDay(events, d))
              m == Cardinality(OnDay(events, d) \cup {p})
  <2>2. n \in Nat /\ m = IF p \in OnDay(events, d) THEN n ELSE n + 1
    BY <1>1, FS_AddElement
  <2>. HIDE DEF n, m
  <2>3. n \in Nat /\ m \in Nat /\ m <= n + 1
    BY <2>2
  <2>. QED  BY <1>2, <1>3, <2>1, <2>3 DEF n, m
<1>4. CASE DayOf(p.at) # d
  <2>1. OnDay(events \cup {p}, d) = OnDay(events, d)
    BY <1>4 DEF OnDay
  <2>. QED  BY <1>1, <1>2, <2>1
<1>. QED  BY <1>3, <1>4

\* An event that passes the gate is counted, on a new day from one.
LEMMA PassIsCharged ==
    ASSUME AnalyzerTypeOK, BudgetInv, NEW e \in Event, GatePasses(e), UNCHANGED now
    PROVE  BudgetInv'
<1>. DEFINE p == [event |-> e, at |-> now]
            today == DayOf(now)
<1>0. /\ today \in 1 .. DayOf(MaxTime) /\ DayOf(MaxTime) \in Nat
      /\ dayKey \in Nat /\ dayCount \in Nat /\ DailyMax \in Nat \ {0} /\ dayKey <= today
  BY Present, AnalyzerAssumption DEF AnalyzerTypeOK, BudgetInv
<1>1. /\ passed' = passed \cup {p} /\ dayKey' = today /\ dayCount' = Today + 1
      /\ ~(Today >= DailyMax) /\ now' = now
  BY DEF GatePasses, Full
<1>2. IsFiniteSet(passed) /\ DayOf(p.at) = today
  BY DEF BudgetInv
<1>3. Cardinality(OnDay(passed, today)) <= Today
  <2>1. CASE today = dayKey
    BY <2>1 DEF Today, BudgetInv
  <2>2. CASE today # dayKey
    <3>1. ASSUME NEW q \in passed PROVE DayOf(q.at) # today
      <4>1. DayOf(q.at) \in Nat /\ DayOf(q.at) <= dayKey
        BY DaysGoOn, AnalyzerAssumption DEF AnalyzerTypeOK, BudgetInv, Time
      <4>. QED  BY <1>0, <2>2, <4>1
    <3>2. OnDay(passed, today) = {}
      BY <3>1 DEF OnDay
    <3>. QED  BY <2>2, <3>2, FS_EmptySet DEF Today
  <2>. QED  BY <2>1, <2>2
<1>4. Today \in Nat
  BY <1>0 DEF Today
<1>5. Cardinality(OnDay(passed', today)) <= Today + 1
  <2>. DEFINE before == Cardinality(OnDay(passed, today))
              after  == Cardinality(OnDay(passed \cup {p}, today))
  <2>1. before \in Nat /\ after \in Nat /\ after <= before + 1
    BY <1>2, OneMore
  <2>2. before <= Today
    BY <1>3
  <2>. HIDE DEF before, after
  <2>3. after <= Today + 1
    BY <1>4, <2>1, <2>2
  <2>. QED  BY <1>1, <2>3 DEF after
<1>6. \A d \in 1 .. DayOf(MaxTime) : Cardinality(OnDay(passed', d)) <= DailyMax
  <2>1. ASSUME NEW d \in 1 .. DayOf(MaxTime), d # today
        PROVE  Cardinality(OnDay(passed', d)) <= DailyMax
    <3>1. OnDay(passed', d) = OnDay(passed, d)
      BY <1>1, <1>2, <2>1, OneMore
    <3>. QED  BY <3>1 DEF BudgetInv
  <2>2. Cardinality(OnDay(passed', today)) <= DailyMax
    <3>. DEFINE after == Cardinality(OnDay(passed', today))
    <3>1. after \in Nat /\ after <= Today + 1
      BY <1>1, <1>2, <1>5, OneMore
    <3>. HIDE DEF after
    <3>2. after <= DailyMax
      BY <1>0, <1>1, <1>4, <3>1
    <3>. QED  BY <3>2 DEF after
  <2>. QED  BY <2>1, <2>2
<1>7. IsFiniteSet(passed') /\ \A q \in passed' : DayOf(q.at) <= today
  <2>1. ASSUME NEW q \in passed PROVE DayOf(q.at) <= today
    <3>1. DayOf(q.at) \in Nat /\ DayOf(q.at) <= dayKey
      BY DaysGoOn, AnalyzerAssumption DEF AnalyzerTypeOK, BudgetInv, Time
    <3>. QED  BY <1>0, <3>1
  <2>. QED  BY <1>0, <1>1, <1>2, <2>1, OneMore
<1>. QED  BY <1>0, <1>1, <1>5, <1>6, <1>7 DEF BudgetInv

\* An event that is refused on a new day resets the count.
LEMMA RefusalResets ==
    ASSUME AnalyzerTypeOK, BudgetInv, NEW e \in Event, GateRefuses(e), UNCHANGED now
    PROVE  BudgetInv'
<1>0. /\ DayOf(now) \in Nat /\ dayKey \in Nat /\ dayKey <= DayOf(now)
      /\ passed' = passed /\ now' = now
  BY Present DEF AnalyzerTypeOK, BudgetInv, GateRefuses
<1>1. CASE UNCHANGED <<dayKey, dayCount>>
  BY <1>0, <1>1 DEF BudgetInv
<1>2. CASE dayKey' = DayOf(now) /\ dayCount' = Today /\ DayOf(now) = dayKey
  BY <1>0, <1>2 DEF BudgetInv, Today
<1>3. CASE dayKey' = DayOf(now) /\ dayCount' = Today /\ DayOf(now) # dayKey
  <2>1. ASSUME NEW q \in passed PROVE DayOf(q.at) <= DayOf(now) /\ DayOf(q.at) # DayOf(now)
    <3>1. DayOf(q.at) \in Nat /\ DayOf(q.at) <= dayKey
      BY DaysGoOn, AnalyzerAssumption DEF AnalyzerTypeOK, BudgetInv, Time
    <3>. QED  BY <1>0, <1>3, <3>1
  <2>2. OnDay(passed, DayOf(now)) = {}
    BY <2>1 DEF OnDay
  <2>3. Cardinality(OnDay(passed, DayOf(now))) <= Today
    BY <1>3, <2>2, FS_EmptySet DEF Today
  <2>. QED  BY <1>0, <1>3, <2>1, <2>3 DEF BudgetInv
<1>. QED  BY <1>1, <1>2, <1>3 DEF GateRefuses

\* No step but those of the gate touches the count of the day.
LEMMA BudgetStep == TypeOK /\ BudgetInv /\ [Next]_vars => BudgetInv'
<1>. SUFFICES ASSUME AnalyzerTypeOK, DeliveryTypeOK, BudgetInv, [Next]_vars PROVE BudgetInv'
  BY DEF TypeOK
<1>1. CASE UNCHANGED <<now, dayKey, dayCount, passed>>
  BY <1>1 DEF BudgetInv
<1>2. CASE Tick
  <2>1. DayOf(now) \in Nat /\ DayOf(now + 1) \in Nat /\ DayOf(now) <= DayOf(now + 1) /\ dayKey \in Nat
    <3>1. now \in Nat /\ now + 1 \in Nat /\ now <= now + 1 /\ now + 1 <= now + 1
      BY Present DEF AnalyzerTypeOK
    <3>2. DayOf(now) \in Nat /\ DayOf(now + 1) \in Nat /\ DayOf(now) <= DayOf(now + 1)
      BY <3>1, DaysGoOn
    <3>3. dayKey \in Nat
      BY Present DEF AnalyzerTypeOK
    <3>. QED  BY <3>2, <3>3
  <2>2. dayKey <= DayOf(now + 1)
    BY <2>1 DEF BudgetInv
  <2>. QED  BY <1>2, <2>2 DEF Tick, analyzer, BudgetInv
<1>3. CASE UNCHANGED now /\ Handle /\ queue # <<>> /\ Head(queue) \in Event
  BY <1>3, PassIsCharged, RefusalResets DEF Handle
<1>4. ASSUME NEW e \in Event, UNCHANGED now, History(e) \/ Answer(e) \/ Fail(e) PROVE BudgetInv'
  BY <1>1, <1>4 DEF History, Answer, Fail, OnOK, OnFail, analyzer
<1>5. CASE Outside
  BY <1>1, <1>5, OutsideKeeps DEF analyzer
<1>. QED  BY <1>2, <1>3, <1>4, <1>5, AnalyzerSteps

-----------------------------------------------------------------------------
(* The streak of failures and the breaker                                  *)

\* Every step leaves the analyzer one alert at most, behind a closed breaker: it
\* takes the next when the last is out of its hands, and fails with none in them.
LEMMA InHandStep == TypeOK /\ OneInHand /\ [Next]_vars => OneInHand'
<1>. SUFFICES ASSUME AnalyzerTypeOK, DeliveryTypeOK, OneInHand, [Next]_vars PROVE OneInHand'
  BY DEF TypeOK
<1>0. stage \in [Event -> Stage] /\ now \in Nat /\ openUntil \in Nat
  BY Present, AnalyzerAssumption DEF DeliveryTypeOK, AnalyzerTypeOK
<1>1. CASE Outside
  BY <1>0, <1>1, OutsideKeeps DEF OneInHand, Open, analyzer
<1>2. CASE Tick
  BY <1>0, <1>2 DEF Tick, delivery, analyzer, OneInHand, Open
<1>3. CASE UNCHANGED now /\ Handle /\ queue # <<>> /\ Head(queue) \in Event
  <2>1. \A e \in Event : stage[e] \notin Analysing
    BY <1>3 DEF Handle, AtSelect
  <2>2. CASE GateRefuses(Head(queue)) /\ Move(Head(queue), "queued", "over")
    <3>1. \A e \in Event : stage'[e] \notin Analysing
      BY <1>0, <1>3, <2>1, <2>2, Moved DEF Analysing, Stage
    <3>. QED  BY <3>1 DEF OneInHand
  <2>3. CASE GatePasses(Head(queue)) /\ Move(Head(queue), "queued", "history")
    <3>1. \A e \in Event : stage'[e] \in Analysing => e = Head(queue)
      BY <1>0, <1>3, <2>1, <2>3, Moved DEF Analysing, Stage
    <3>2. ~Open /\ now' = now /\ openUntil' = openUntil
      BY <1>3, <2>3 DEF GatePasses
    <3>. QED  BY <3>1, <3>2 DEF OneInHand, Open
  <2>. QED  BY <1>3, <2>2, <2>3 DEF Handle
<1>4. ASSUME NEW e \in Event, UNCHANGED now, History(e) \/ Answer(e) \/ Fail(e) PROVE OneInHand'
  <2>1. stage[e] \in Analysing
    BY <1>4 DEF History, Answer, Fail, Move, Analysing
  <2>2. \A f \in Event : stage'[f] \in Analysing => f = e
    <3>1. \E from \in Stage, to \in Stage : Move(e, from, to)
      BY <1>4 DEF History, Answer, Fail, Stage
    <3>. QED  BY <1>0, <2>1, <3>1, Moved DEF OneInHand
  <2>3. CASE History(e) \/ Answer(e)
    BY <1>4, <2>1, <2>2, <2>3 DEF History, Answer, OnOK, analyzer, OneInHand, Open
  <2>4. CASE Fail(e)
    <3>1. stage'[e] \notin Analysing
      BY <1>0, <2>4, Moved DEF Fail, Analysing, Stage
    <3>. QED  BY <2>2, <3>1 DEF OneInHand
  <2>. QED  BY <1>4, <2>3, <2>4
<1>. QED  BY <1>1, <1>2, <1>3, <1>4, AnalyzerSteps

\* A failure comes after the last opening of the breaker is over, and Strikes
\* failures back there is an opening, or a failure before one.
LEMMA FailureIsLate ==
    ASSUME AnalyzerTypeOK, StreakInv, ~Open, OnFail, UNCHANGED now
    PROVE  StreakInv'
<1>. DEFINE len == Len(failures)
<1>0. /\ now \in Nat /\ BreakerFails \in Nat /\ BreakerOpen \in Nat /\ openUntil \in Nat
      /\ len \in Nat /\ failStrk \in Nat /\ Strikes \in Nat \ {0}
      /\ failStrk < Strikes /\ failStrk <= len /\ openUntil <= now /\ now' = now
      /\ \A i \in 1 .. len : failures[i] \in Nat
  BY Present, AnalyzerAssumption DEF AnalyzerTypeOK, StreakInv, Strikes, Open, Time
<1>1. /\ failures \in Seq(Time) /\ now \in Time /\ failures' = Append(failures, now)
  BY DEF AnalyzerTypeOK, OnFail
<1>2. /\ Len(failures') = len + 1 /\ failures'[len + 1] = now
      /\ \A i \in 1 .. len : failures'[i] = failures[i]
  BY <1>1
<1>3. \A i \in 1 .. len : /\ failures[i] <= now
                          /\ i <= len - failStrk => failures[i] + BreakerOpen <= openUntil
                          /\ i > Strikes => failures[i] - failures[i - Strikes] >= BreakerOpen
  BY DEF StreakInv
<1>4. \/ failStrk' = 0 /\ openUntil' = now + BreakerOpen
      \/ failStrk' = failStrk + 1 /\ failStrk + 1 < Strikes /\ openUntil' = openUntil
  BY <1>0 DEF OnFail, Strikes
<1>. HIDE DEF len
<1>5. ASSUME NEW i \in 1 .. len + 1
      PROVE  /\ failures'[i] <= now
             /\ i <= len + 1 - failStrk' => failures'[i] + BreakerOpen <= openUntil'
             /\ i > Strikes => failures'[i] - failures'[i - Strikes] >= BreakerOpen
  <2>1. CASE i \in 1 .. len
    <3>1. failures'[i] = failures[i] /\ failures[i] <= now /\ failures[i] \in Nat
      BY <1>0, <1>2, <1>3, <2>1
    <3>2. i <= len + 1 - failStrk' => failures[i] + BreakerOpen <= openUntil'
      BY <1>0, <1>3, <1>4, <2>1, <3>1
    <3>3. i > Strikes => failures'[i] - failures'[i - Strikes] >= BreakerOpen
      <4>. SUFFICES ASSUME i > Strikes PROVE failures'[i] - failures'[i - Strikes] >= BreakerOpen
        OBVIOUS
      <4>1. i - Strikes \in 1 .. len
        BY <1>0, <2>1
      <4>2. failures'[i - Strikes] = failures[i - Strikes]
        BY <1>2, <4>1
      <4>. QED  BY <1>3, <2>1, <3>1, <4>2
    <3>. QED  BY <3>1, <3>2, <3>3
  <2>2. CASE i = len + 1
    <3>1. failures'[i] = now
      BY <1>2, <2>2
    <3>2. i <= len + 1 - failStrk' => now + BreakerOpen <= openUntil'
      BY <1>0, <1>4, <2>2
    <3>3. i > Strikes => now - failures'[i - Strikes] >= BreakerOpen
      <4>. SUFFICES ASSUME i > Strikes PROVE now - failures'[i - Strikes] >= BreakerOpen
        OBVIOUS
      <4>1. i - Strikes \in 1 .. len /\ i - Strikes <= len - failStrk
        BY <1>0, <2>2
      <4>2. /\ failures'[i - Strikes] = failures[i - Strikes] /\ failures[i - Strikes] \in Nat
            /\ failures[i - Strikes] + BreakerOpen <= openUntil
        BY <1>0, <1>2, <1>3, <4>1
      <4>. QED  BY <1>0, <4>2
    <3>. QED  BY <1>0, <3>1, <3>2, <3>3
  <2>. QED  BY <1>0, <2>1, <2>2
<1>6. failStrk' < Strikes /\ failStrk' <= len + 1
  BY <1>0, <1>4
<1>7. len + 1 = Len(failures')
  BY <1>2
<1>8. failStrk' < Strikes /\ failStrk' <= Len(failures')
  BY <1>6, <1>7
<1>9. \A i \in 1 .. Len(failures') :
          /\ failures'[i] <= now'
          /\ i <= Len(failures') - failStrk' => failures'[i] + BreakerOpen <= openUntil'
          /\ i > Strikes => failures'[i] - failures'[i - Strikes] >= BreakerOpen
  <2>. SUFFICES ASSUME NEW i \in 1 .. Len(failures')
                PROVE  /\ failures'[i] <= now'
                       /\ i <= Len(failures') - failStrk' => failures'[i] + BreakerOpen <= openUntil'
                       /\ i > Strikes => failures'[i] - failures'[i - Strikes] >= BreakerOpen
    OBVIOUS
  <2>1. i \in 1 .. len + 1 /\ now' = now
    BY <1>0, <1>7
  <2>2. failures'[i] <= now'
    BY <1>5, <2>1
  <2>3. i <= Len(failures') - failStrk' => failures'[i] + BreakerOpen <= openUntil'
    <3>1. i <= len + 1 - failStrk' => failures'[i] + BreakerOpen <= openUntil'
      BY <1>5, <2>1
    <3>2. Len(failures') - failStrk' = len + 1 - failStrk'
      <4>1. failStrk' \in Nat /\ len \in Nat
        BY <1>0, <1>4
      <4>. QED  BY <1>7, <4>1
    <3>. QED  BY <3>1, <3>2
  <2>4. i > Strikes => failures'[i] - failures'[i - Strikes] >= BreakerOpen
    BY <1>5, <2>1
  <2>. QED  BY <2>2, <2>3, <2>4
<1>. QED  BY <1>8, <1>9 DEF StreakInv, Strikes

\* No other step adds a failure, and an answer forgets them all.
LEMMA StreakStep == TypeOK /\ OneInHand /\ StreakInv /\ [Next]_vars => StreakInv'
<1>. SUFFICES ASSUME AnalyzerTypeOK, DeliveryTypeOK, OneInHand, StreakInv, [Next]_vars PROVE StreakInv'
  BY DEF TypeOK
<1>1. CASE UNCHANGED <<now, failStrk, openUntil, failures>>
  BY <1>1 DEF StreakInv, Strikes
<1>2. CASE Tick
  <2>1. now \in Nat /\ now' = now + 1 /\ UNCHANGED <<failStrk, openUntil, failures>>
    BY <1>2, Present DEF Tick, analyzer, AnalyzerTypeOK
  <2>2. \A i \in 1 .. Len(failures) : failures[i] <= now'
    <3>1. \A i \in 1 .. Len(failures) : failures[i] \in Nat
      BY AnalyzerAssumption DEF AnalyzerTypeOK, Time
    <3>. QED  BY <2>1, <3>1 DEF StreakInv
  <2>. QED  BY <2>1, <2>2 DEF StreakInv, Strikes
<1>3. CASE UNCHANGED now /\ Handle /\ queue # <<>> /\ Head(queue) \in Event
  BY <1>1, <1>3 DEF Handle, GateRefuses, GatePasses
<1>4. ASSUME NEW e \in Event, UNCHANGED now, History(e) PROVE StreakInv'
  BY <1>1, <1>4 DEF History, analyzer
<1>5. ASSUME NEW e \in Event, UNCHANGED now, Answer(e) PROVE StreakInv'
  <2>1. failStrk' = 0 /\ failures' = <<>> /\ Len(<<>>) = 0 /\ Strikes > 0
    BY <1>5, AnalyzerAssumption DEF Answer, OnOK, Strikes
  <2>. QED  BY <2>1 DEF StreakInv, Strikes
<1>6. ASSUME NEW e \in Event, UNCHANGED now, Fail(e) PROVE StreakInv'
  <2>1. stage[e] \in Analysing
    BY <1>6 DEF Fail, Move, Analysing
  <2>2. ~Open /\ OnFail
    BY <1>6, <2>1 DEF OneInHand, Fail
  <2>. QED  BY <1>6, <2>2, FailureIsLate
<1>7. CASE Outside
  BY <1>1, <1>7, OutsideKeeps DEF analyzer
<1>. QED  BY <1>2, <1>3, <1>4, <1>5, <1>6, <1>7, AnalyzerSteps

-----------------------------------------------------------------------------
\* The inductive invariant of delivery and analyzer: types, the count of the day,
\* the alert in hand and the streak of failures.
THEOREM InvCorrect == Spec => []IInv
<1>1. Init => IInv
  <2>. SUFFICES ASSUME Init PROVE IInv
    OBVIOUS
  <2>1. TypeOK
    BY TypeInit
  <2>2. BudgetInv
    <3>1. passed = {} /\ dayKey = 0 /\ dayCount = 0 /\ DailyMax \in Nat
      BY AnalyzerAssumption DEF Init, AnalyzerInit
    <3>2. \A d : OnDay(passed, d) = {}
      BY <3>1 DEF OnDay
    <3>3. IsFiniteSet({}) /\ Cardinality({}) = 0
      BY FS_EmptySet
    <3>4. DayOf(now) \in Nat
      BY <2>1, Present DEF TypeOK, AnalyzerTypeOK
    <3>. QED  BY <3>1, <3>2, <3>3, <3>4 DEF BudgetInv
  <2>3. OneInHand
    BY DEF Init, OneInHand, Analysing
  <2>4. StreakInv
    <3>1. failures = <<>> /\ Len(<<>>) = 0 /\ failStrk = 0 /\ Strikes > 0
      BY AnalyzerAssumption DEF Init, AnalyzerInit, Strikes
    <3>. QED  BY <3>1 DEF StreakInv
  <2>. QED  BY <2>1, <2>2, <2>3, <2>4 DEF IInv
<1>2. IInv /\ [Next]_vars => IInv'
  BY TypeStep, BudgetStep, InHandStep, StreakStep DEF IInv
<1>. QED  BY <1>1, <1>2, PTL DEF Spec

\* The variables keep their types: neither emitCh nor the queue of the analyzer
\* grows beyond its capacity, and no day's count beyond its limit.
THEOREM TypeCorrect == Spec => []TypeOK
<1>1. IInv => TypeOK
  BY DEF IInv
<1>. QED  BY <1>1, InvCorrect, PTL

\* On no day do more events pass the gate than the limit allows, though the count
\* is reset late.
THEOREM Budgeted == Spec => []DailyBudget
<1>1. IInv => DailyBudget
  BY DEF IInv, BudgetInv, DailyBudget, OnDay
<1>. QED  BY <1>1, InvCorrect, PTL

\* As many failures in a row as open the breaker, and the next, are at least the
\* time apart for which it opens.
THEOREM Spread == Spec => []FailuresSpread
<1>1. IInv => FailuresSpread
  BY DEF IInv, StreakInv, FailuresSpread, Strikes
<1>. QED  BY <1>1, InvCorrect, PTL
=============================================================================
