----------------------------- MODULE Analyzer ------------------------------
(***************************************************************************)
(* What the analyzer of alerts remembers between two events, and how it    *)
(* decides whether to ask the language model about one (gate, onFail and   *)
(* onOK of internal/aiops/analyzer.go, each under its lock).  Delivery.tla *)
(* says when they are called.                                              *)
(***************************************************************************)
EXTENDS Naturals, Sequences, FiniteSets

CONSTANTS Event,         \* the alerts
          Key,           \* target|rule
          KeyOf,         \* [Event -> Key]
          Cooldown, DailyMax, BreakerFails, BreakerOpen,    \* limits of aiops.yaml
          DayLength,     \* units of time in a day
          MaxTime        \* BOUND: the clock stops there

\* LoadFromFile gives DailyMax a default, and the others none.
ASSUME AnalyzerAssumption ==
    /\ KeyOf \in [Event -> Key]
    /\ Cooldown \in Nat /\ BreakerFails \in Nat /\ BreakerOpen \in Nat
    /\ DailyMax \in Nat \ {0} /\ DayLength \in Nat \ {0} /\ MaxTime \in Nat \ {0}

VARIABLES
    now,
    lastRun,    \* when an event of a key last passed the gate
    failStrk,   \* failures in a row
    openUntil,  \* the breaker is open until then
    dayKey, dayCount,
    \* history
    passed,     \* the events that have passed the gate, and when
    failures    \* the times of the failures since the last answer

analyzer == <<lastRun, failStrk, openUntil, dayKey, dayCount, passed, failures>>

Time  == 1 .. MaxTime
Never == 0
DayOf(t) == t \div DayLength + 1

AnalyzerTypeOK ==
    /\ now \in Time
    /\ lastRun \in [Key -> Time \cup {Never}]
    /\ failStrk \in 0 .. BreakerFails
    /\ openUntil \in 0 .. MaxTime + BreakerOpen
    /\ dayKey \in 0 .. DayOf(MaxTime)
    /\ dayCount \in 0 .. DailyMax
    /\ passed \subseteq [event : Event, at : Time]
    /\ failures \in Seq(Time)

\* New: no day is the present one.
AnalyzerInit ==
    /\ now = 1
    /\ lastRun = [k \in Key |-> Never]
    /\ failStrk = 0 /\ openUntil = 0
    /\ dayKey = 0 /\ dayCount = 0
    /\ passed = {} /\ failures = <<>>

-----------------------------------------------------------------------------
(* The gate                                                                *)

Open    == now < openUntil
Today   == IF DayOf(now) = dayKey THEN dayCount ELSE 0
Cooling(e) == lastRun[KeyOf[e]] # Never /\ now - lastRun[KeyOf[e]] < Cooldown

\* Mutant of Full: one too many.
Full_OffByOne == Today > DailyMax

Full == Today >= DailyMax

\* An open breaker is found before the day is looked at.
GateRefuses(e) ==
    /\ \/ Open /\ UNCHANGED <<dayKey, dayCount>>
       \/ /\ ~Open
          /\ dayKey' = DayOf(now) /\ dayCount' = Today
          /\ Full \/ Cooling(e)
    /\ UNCHANGED <<lastRun, failStrk, openUntil, passed, failures>>

\* Mutant of GatePasses: yesterday's count is kept.
GatePasses_NoReset(e) ==
    /\ ~Open /\ ~Full /\ ~Cooling(e)
    /\ lastRun' = [lastRun EXCEPT ![KeyOf[e]] = now]
    /\ dayKey' = DayOf(now) /\ dayCount' = dayCount + 1
    /\ passed' = passed \cup {[event |-> e, at |-> now]}
    /\ UNCHANGED <<failStrk, openUntil, failures>>

\* The day and the cooldown are charged before the model is asked.
GatePasses(e) ==
    /\ ~Open /\ ~Full /\ ~Cooling(e)
    /\ lastRun' = [lastRun EXCEPT ![KeyOf[e]] = now]
    /\ dayKey' = DayOf(now) /\ dayCount' = Today + 1
    /\ passed' = passed \cup {[event |-> e, at |-> now]}
    /\ UNCHANGED <<failStrk, openUntil, failures>>

-----------------------------------------------------------------------------
(* What the model's answer leaves behind                                   *)

\* Mutant of OnFail: the streak is compared before this failure is counted.
OnFail_Late ==
    /\ IF failStrk >= BreakerFails
       THEN failStrk' = 0 /\ openUntil' = now + BreakerOpen
       ELSE failStrk' = failStrk + 1 /\ UNCHANGED openUntil
    /\ failures' = Append(failures, now)
    /\ UNCHANGED <<lastRun, dayKey, dayCount, passed>>

OnFail ==
    /\ IF failStrk + 1 >= BreakerFails
       THEN failStrk' = 0 /\ openUntil' = now + BreakerOpen
       ELSE failStrk' = failStrk + 1 /\ UNCHANGED openUntil
    /\ failures' = Append(failures, now)
    /\ UNCHANGED <<lastRun, dayKey, dayCount, passed>>

OnOK ==
    /\ failStrk' = 0
    /\ failures' = <<>>
    /\ UNCHANGED <<lastRun, openUntil, dayKey, dayCount, passed>>

-----------------------------------------------------------------------------
(* Properties                                                              *)

\* No day sees more than DailyMax events pass the gate, though the count is reset
\* only by the first event that comes, with a closed breaker, on another day.
DailyBudget ==
    \A d \in 1 .. DayOf(MaxTime) :
        Cardinality({p \in passed : DayOf(p.at) = d}) <= DailyMax

\* Failures that follow one another without an answer are so spread out that
\* any BreakerFails of them and the next are BreakerOpen apart.
FailuresSpread ==
    LET strikes == IF BreakerFails = 0 THEN 1 ELSE BreakerFails
    IN  \A i \in 1 .. Len(failures) :
            i > strikes => failures[i] - failures[i - strikes] >= BreakerOpen
=============================================================================
