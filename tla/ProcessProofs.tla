--------------------------- MODULE ProcessProofs ----------------------------
(***************************************************************************)
(* Proofs about Process: its types, that main closes the database only     *)
(* when nothing is under way that is still waited for, be it a check or a  *)
(* request, and that the counter of checks and the gauges agree with what  *)
(* workers and collectors hold, for any numbers of workers, terms and      *)
(* rounds, and any answers of the network.                                 *)
(***************************************************************************)
EXTENDS Process, FiniteSetTheorems, TLAPS

\* A failure with an error type and no days left is of the type of outcomes.
LEMMA OutcomeOf ==
    ASSUME NEW E, NEW e \in E
    PROVE  [status |-> "down", errorType |-> e, days |-> 0] \in
             [status : {"up", "down"}, errorType : E, days : Int]
OBVIOUS

\* A check of any type makes an outcome of any answer, be it cut short or not.
LEMMA CheckMakesOutcome ==
    ASSUME NEW a \in Answers, type \in {"http", "tcp", "cert"}
    PROVE  Check(type, Warn, a) \in Outcome
<1>1. ClassifyNetErr(a.err) \in ErrorType \cup {""}
  BY DEF ClassifyNetErr, ErrorType
<1>2. a.certs # <<>> => Head(a.certs) \in Int
  BY DEF Answers
<1>3. /\ Down(ClassifyNetErr(a.err), 0) \in Outcome /\ Up(0) \in Outcome
      /\ Down("non_2xx", 0) \in Outcome /\ Down("other", 0) \in Outcome
  <2>1. Down(ClassifyNetErr(a.err), 0) \in Outcome
    <3>1. PICK e \in ErrorType \cup {""} : e = ClassifyNetErr(a.err)
      BY <1>1
    <3>2. Down(e, 0) \in Outcome
      BY OutcomeOf DEF Down, Outcome
    <3>. QED  BY <3>1, <3>2
  <2>2. Up(0) \in Outcome /\ Down("non_2xx", 0) \in Outcome /\ Down("other", 0) \in Outcome
    BY DEF Up, Down, Outcome, ErrorType
  <2>. QED  BY <2>1, <2>2
<1>4. a.certs # <<>> => /\ Down("cert_expiring", Head(a.certs)) \in Outcome
                        /\ Up(Head(a.certs)) \in Outcome
  BY <1>2 DEF Up, Down, Outcome, ErrorType
<1>5. HTTPCheck(a) \in Outcome
  BY <1>3, Zenon DEF HTTPCheck
<1>6. TCPCheck(a) \in Outcome
  BY <1>3, Zenon DEF TCPCheck
<1>7. CertCheck(a, Warn) \in Outcome
  BY <1>3, <1>4, Zenon DEF CertCheck
<1>. QED  BY <1>5, <1>6, <1>7 DEF Check

\* A check that is cut short is answered like any other.
LEMMA CutShortIsAnswer == CutShort \in Answers
BY DEF CutShort, Answers, Facet

\* Whatever the answer, a certificate with few days left is down.
LEMMA CheckIsCautious == \A a : Cautious(Check(type, Warn, a))
<1>. SUFFICES ASSUME NEW a, type = "cert" PROVE Cautious(CertCheck(a, Warn))
  BY DEF Check, Cautious
<1>1. \A errorType, d : Cautious(Down(errorType, d))
  BY DEF Down, Cautious
<1>2. \A d : ~(d < Warn) => Cautious(Up(d))
  BY DEF Up, Cautious
<1>. QED  BY <1>1, <1>2, Zenon DEF CertCheck

\* What a check that ends may bring: an outcome, recorded by its worker.
LEMMA ReturnsOutcome ==
    ASSUME TypeOK, NEW k \in Term, NEW w \in Worker, CheckReturns(k, w)
    PROVE  \E outcome \in Outcome : Finishes(k, w, outcome) /\ Cautious(outcome)
<1>1. type \in {"http", "tcp", "cert"} /\ Network \subseteq Answers
  BY ProcessAssumption DEF TypeOK
<1>2. PICK a \in Answers : Finishes(k, w, Check(type, Warn, a))
  BY <1>1, CutShortIsAnswer DEF CheckReturns
<1>. QED  BY <1>1, <1>2, CheckMakesOutcome, CheckIsCautious

\* The cases of a step, for the proofs that go through them.
LEMMA StepCases ==
    ASSUME TypeOK, [Next]_vars
    PROVE  \/ TermStarts \/ LeadEnds("session") \/ LeadEnds("signal")
           \/ DemoteDone \/ DemoteTimeout \/ Returns
           \/ \E k \in Term : \/ RunStarts(k) \/ Round(k) \/ Stops(k) \/ RunEnds(k) \/ Tick(k)
                              \/ Collects(k)
           \/ \E k \in Term, w \in Worker :
                 \/ TakesJob(k, w) \/ SetsDays(k, w) \/ Sends(k, w)
                 \/ \E outcome \in Outcome : Finishes(k, w, outcome) /\ Cautious(outcome)
           \/ Signal \/ Fatal \/ Admit \/ Handle
           \/ Shutdown \/ ShutdownDone \/ ShutdownTimeout \/ Join \/ Exit
           \/ UNCHANGED vars
BY ReturnsOutcome, Zenon DEF Next, LeaderStep, RunStep, WorkerStep, MainStep

-----------------------------------------------------------------------------
(* Types                                                                   *)

\* The variables start with values of their types.
LEMMA TypeInit == Init => TypeOK
<1>. SUFFICES ASSUME Init PROVE TypeOK
  OBVIOUS
<1>1. MainOK /\ StoreOK /\ MetricOK
  BY Zenon, SMT DEF Init, MainOK, StoreOK, MetricOK
<1>2. term \in 0 .. MaxTerms /\ rounds = term /\ (term = 0 \/ term = 1)
  BY ProcessAssumption DEF Init
<1>3. LeaderOK
  BY <1>2 DEF Init, LeaderOK
<1>4. PoolOK
  BY <1>2, ProcessAssumption DEF Init, PoolOK, Phase, Task, Idle
<1>. QED  BY <1>1, <1>3, <1>4 DEF Init, TypeOK

\* What a step does not touch keeps its type.
LEMMA Untouched ==
    ASSUME TypeOK
    PROVE  /\ UNCHANGED mainVars => MainOK'
           /\ UNCHANGED leaderVars => LeaderOK'
           /\ UNCHANGED poolVars => PoolOK'
           /\ UNCHANGED storeVars => StoreOK'
           /\ UNCHANGED metricVars => MetricOK'
<1>1. UNCHANGED mainVars => MainOK'
  BY DEF TypeOK, mainVars, MainOK
<1>2. UNCHANGED leaderVars => LeaderOK'
  BY DEF TypeOK, leaderVars, LeaderOK
<1>3. UNCHANGED poolVars => PoolOK'
  BY DEF TypeOK, poolVars, PoolOK
<1>4. UNCHANGED storeVars => StoreOK'
  BY DEF TypeOK, storeVars, StoreOK
<1>5. UNCHANGED metricVars => MetricOK'
  BY DEF TypeOK, metricVars, MetricOK
<1>. QED  BY <1>1, <1>2, <1>3, <1>4, <1>5

\* Every step of the process keeps the types of its variables.
LEMMA TypeNext == TypeOK /\ TermInv /\ [Next]_vars => TypeOK'
<1>. SUFFICES ASSUME TypeOK, TermInv, [Next]_vars PROVE TypeOK'
  OBVIOUS
<1>1. ASSUME TermStarts PROVE TypeOK'
  <2>1. leader' = "leading" /\ term' \in 0 .. MaxTerms /\ UNCHANGED <<cancelled, abandoned>>
    BY <1>1, ProcessAssumption DEF TermStarts, TypeOK, LeaderOK
  <2>2. LeaderOK'
    BY <2>1 DEF TypeOK, LeaderOK
  <2>3. PoolOK'
    BY <1>1, ProcessAssumption DEF TermStarts, TypeOK, LeaderOK, PoolOK, Phase, Term
  <2>. QED  BY <1>1, <2>2, <2>3, Untouched DEF TermStarts, TypeOK
<1>2. ASSUME LeadEnds("session") \/ LeadEnds("signal") PROVE TypeOK'
  <2>1. leader = "leading" /\ term # 0
    BY <1>2 DEF LeadEnds, TermInv
  <2>2. term \in Term
    BY <2>1, ProcessAssumption DEF TypeOK, LeaderOK, Term
  <2>3. leader' = "demoting" /\ cancelled' = cancelled \cup {term} /\ UNCHANGED <<term, abandoned>>
    BY <1>2 DEF LeadEnds
  <2>4. LeaderOK'
    BY <2>2, <2>3 DEF TypeOK, LeaderOK
  <2>. QED  BY <1>2, <2>4, Untouched DEF LeadEnds, TypeOK
<1>3. ASSUME DemoteDone \/ DemoteTimeout PROVE TypeOK'
  <2>1. term \in Term
    BY <1>3 DEF DemoteDone, DemoteTimeout, Resign, TypeOK, LeaderOK, TermInv, Term
  <2>2. LeaderOK'
    BY <1>3, <2>1 DEF DemoteDone, DemoteTimeout, Resign, TypeOK, LeaderOK
  <2>. QED  BY <1>3, <2>2, Untouched DEF DemoteDone, DemoteTimeout, Resign, TypeOK
<1>4. ASSUME Returns PROVE TypeOK'
  <2>1. LeaderOK'
    BY <1>4 DEF Returns, TypeOK, LeaderOK
  <2>. QED  BY <1>4, <2>1, Untouched DEF Returns, TypeOK
<1>5. ASSUME NEW k \in Term, RunStarts(k) \/ Round(k)
      PROVE  TypeOK'
  <2>1. pool \in [Term -> Phase] /\ queued \in [Term -> 0 .. 1]
    BY DEF TypeOK, PoolOK
  <2>2. pool' = [pool EXCEPT ![k] = "run"] /\ Offer(k) /\ UNCHANGED <<task, results, rounds>>
    BY <1>5 DEF RunStarts, Round
  <2>3. pool' \in [Term -> Phase]
    BY <2>1, <2>2 DEF Phase
  <2>4. queued' \in [Term -> 0 .. 1]
    BY <2>1, <2>2 DEF Offer
  <2>5. PoolOK'
    BY <2>2, <2>3, <2>4 DEF TypeOK, PoolOK
  <2>. QED  BY <1>5, <2>5, Untouched DEF RunStarts, Round, TypeOK
<1>6. ASSUME NEW k \in Term, Stops(k) \/ RunEnds(k) \/ Tick(k)
      PROVE  TypeOK'
  <2>1. \E phase \in Phase : pool' = [pool EXCEPT ![k] = phase]
    BY <1>6 DEF Stops, RunEnds, Tick, Phase
  <2>2. rounds' \in 0 .. MaxRounds /\ UNCHANGED <<queued, task, results>>
    BY <1>6, ProcessAssumption DEF Stops, RunEnds, Tick, TypeOK, PoolOK
  <2>3. PoolOK'
    BY <2>1, <2>2 DEF TypeOK, PoolOK
  <2>. QED  BY <1>6, <2>3, Untouched DEF Stops, RunEnds, Tick, TypeOK
<1>7. ASSUME NEW k \in Term, Collects(k)
      PROVE  TypeOK'
  <2>1. PoolOK'
    BY <1>7 DEF Collects, TypeOK, PoolOK
  <2>2. Head(results[k]) \in Outcome
    BY <1>7 DEF Collects, TypeOK, PoolOK
  <2>3. last' \in {"none", "up", "down", "lost"} /\ collected' = collected + 1 /\ UNCHANGED open
    BY <1>7, <2>2 DEF Collects, Outcome
  <2>4. StoreOK'
    BY <2>3 DEF TypeOK, StoreOK
  <2>. QED  BY <1>7, <2>1, <2>4, Untouched DEF Collects, TypeOK
<1>8. ASSUME NEW k \in Term, NEW w \in Worker, TakesJob(k, w)
      PROVE  TypeOK'
  <2>1. PoolOK'
    BY <1>8 DEF TakesJob, Task, TypeOK, PoolOK
  <2>. QED  BY <1>8, <2>1, Untouched DEF TakesJob, TypeOK
<1>9. ASSUME NEW k \in Term, NEW w \in Worker, SetsDays(k, w)
      PROVE  TypeOK'
  <2>0. task[k][w] \in [at : {"set", "send"}, outcome : Outcome]
    BY <1>9 DEF SetsDays, Task, TypeOK, PoolOK
  <2>1. task[k][w].outcome \in Outcome /\ [task[k][w] EXCEPT !.at = "send"] \in Task
    BY <2>0 DEF Task
  <2>2. PoolOK'
    BY <1>9, <2>1 DEF SetsDays, TypeOK, PoolOK
  <2>3. MetricOK'
    BY <1>9, <2>1 DEF SetsDays, TypeOK, MetricOK, Outcome
  <2>. QED  BY <1>9, <2>2, <2>3, Untouched DEF SetsDays, TypeOK
<1>10. ASSUME NEW k \in Term, NEW w \in Worker, Sends(k, w)
       PROVE  TypeOK'
  <2>1. task[k][w].outcome \in Outcome /\ Idle \in Task
    BY <1>10 DEF Sends, Task, Idle, TypeOK, PoolOK
  <2>2. PoolOK'
    BY <1>10, <2>1 DEF Sends, TypeOK, PoolOK
  <2>. QED  BY <1>10, <2>2, Untouched DEF Sends, TypeOK
<1>11. ASSUME NEW k \in Term, NEW w \in Worker, NEW outcome \in Outcome, Finishes(k, w, outcome)
       PROVE  TypeOK'
  <2>1. PoolOK'
    BY <1>11 DEF Finishes, Task, TypeOK, PoolOK
  <2>2. up' \in {"up", "down"} /\ checks' = checks + 1 /\ UNCHANGED days
    BY <1>11 DEF Finishes, Record, Outcome
  <2>3. mixed' \in BOOLEAN
    BY <1>11, Zenon DEF Finishes
  <2>4. MetricOK'
    BY <2>2, <2>3 DEF TypeOK, MetricOK
  <2>. QED  BY <1>11, <2>1, <2>4, Untouched DEF Finishes, TypeOK
<1>12. ASSUME Signal \/ Fatal \/ Admit \/ Handle \/ Shutdown \/ ShutdownDone \/ ShutdownTimeout
              \/ Exit
       PROVE  TypeOK'
  <2>1. MainOK'
    BY <1>12 DEF Signal, Fatal, Admit, Handle, Shutdown, ShutdownDone, ShutdownTimeout, Exit,
                 TypeOK, MainOK
  <2>. QED  BY <1>12, <2>1, Untouched DEF Signal, Fatal, Admit, Handle, Shutdown, ShutdownDone,
                                         ShutdownTimeout, Exit, TypeOK
<1>13. ASSUME Join PROVE TypeOK'
  <2>1. MainOK' /\ StoreOK'
    BY <1>13 DEF Join, TypeOK, MainOK, StoreOK
  <2>. QED  BY <1>13, <2>1, Untouched DEF Join, TypeOK
<1>14. ASSUME UNCHANGED vars PROVE TypeOK'
  BY <1>14, Untouched DEF vars, TypeOK
<1>. QED
  BY StepCases, <1>1, <1>2, <1>3, <1>4, <1>5, <1>6, <1>7, <1>8, <1>9, <1>10, <1>11, <1>12,
     <1>13, <1>14

-----------------------------------------------------------------------------
(* Terms, pools and the end of main                                        *)

\* Standalone mode starts in its only term, a cluster in none.
LEMMA TermInit == Init => TermInv
BY ProcessAssumption DEF Init, TermInv, Drained, Term

\* What the invariant of terms says of one of them.
TermOK(k) ==
    /\ pool[k] \in {"none", "starting", "ended"} => Drained(k)
    /\ k > term => pool[k] = "none"
    /\ k < term \/ (k = term /\ leader \in {"follower", "returned"})
          => pool[k] = "ended" \/ k \in abandoned

\* Every step keeps the terms in order: a term is left only when its pool is over or
\* was given up.
LEMMA TermNext == TypeOK /\ TermInv /\ [Next]_vars => TermInv'
<1>. SUFFICES ASSUME TypeOK, TermInv, [Next]_vars PROVE TermInv'
  OBVIOUS
<1>0. \A l \in Term : TermOK(l)
  BY DEF TermInv, TermOK
<1>a. ASSUME UNCHANGED <<mode, leader, term, abandoned, open>>, \A l \in Term : TermOK(l)'
      PROVE  TermInv'
  BY <1>a DEF TermInv, TermOK
<1>b. ASSUME UNCHANGED <<leader, term, abandoned, pool, queued, task, results>>
      PROVE  \A l \in Term : TermOK(l)'
  BY <1>0, <1>b DEF TermOK, Drained
<1>1. ASSUME TermStarts PROVE TermInv'
  <2>1. /\ leader = "follower" /\ leader' = "leading" /\ term' = term + 1
        /\ pool' = [pool EXCEPT ![term + 1] = "starting"] /\ term \in Nat /\ open
        /\ UNCHANGED <<mode, abandoned, queued, task, results, open>>
    BY <1>1 DEF TermStarts, storeVars, TypeOK, LeaderOK, StoreOK, TermInv
  <2>2. ASSUME NEW l \in Term PROVE TermOK(l)'
    <3>1. l \in Nat /\ Drained(l)' = Drained(l)
      BY <2>1 DEF Term, Drained
    <3>2. CASE l = term + 1
      BY <1>0, <2>1, <3>1, <3>2 DEF TermOK, TypeOK, PoolOK
    <3>3. CASE l # term + 1
      BY <1>0, <2>1, <3>1, <3>3 DEF TermOK, TypeOK, PoolOK
    <3>. QED  BY <3>2, <3>3
  <2>. QED  BY <2>1, <2>2 DEF TermInv, TermOK
<1>2. ASSUME LeadEnds("session") \/ LeadEnds("signal") PROVE TermInv'
  <2>1. /\ leader = "leading" /\ leader' = "demoting" /\ mode = "cluster"
        /\ UNCHANGED <<mode, term, abandoned, pool, queued, task, results, open>>
    BY <1>2 DEF LeadEnds, poolVars, storeVars
  <2>. QED  BY <1>0, <2>1 DEF TermInv, Drained
<1>3. ASSUME DemoteDone \/ DemoteTimeout PROVE TermInv'
  <2>1. /\ leader = "demoting" /\ leader' \in {"follower", "returned"}
        /\ leader' = "follower" => mode = "cluster"
        /\ pool[term] = "ended" \/ term \in abandoned'
        /\ abandoned \subseteq abandoned'
        /\ UNCHANGED <<mode, term, pool, queued, task, results, open>>
    BY <1>3 DEF DemoteDone, DemoteTimeout, Resign, poolVars, storeVars, TermInv
  <2>. QED  BY <1>0, <2>1 DEF TermInv, Drained
<1>4. ASSUME Returns PROVE TermInv'
  <2>1. /\ leader \in {"follower", "leading"} /\ leader' = "returned"
        /\ leader = "leading" => pool[term] = "ended"
        /\ UNCHANGED <<mode, term, abandoned, pool, queued, task, results, open>>
    BY <1>4 DEF Returns, poolVars, storeVars
  <2>. QED  BY <1>0, <2>1 DEF TermInv, Drained
<1>5. ASSUME NEW k \in Term, RunStarts(k) \/ Round(k) \/ Stops(k) \/ RunEnds(k) \/ Tick(k)
      PROVE  TermInv'
  <2>1. /\ UNCHANGED <<mode, leader, term, abandoned, open, task, results>>
        /\ \A l \in Term \ {k} : pool'[l] = pool[l] /\ queued'[l] = queued[l]
    BY <1>5 DEF RunStarts, Round, Stops, RunEnds, Tick, Offer, leaderVars, storeVars, TypeOK, PoolOK
  <2>2. /\ pool[k] \notin {"none", "ended"}
        /\ pool'[k] \in {"run", "tick", "stop"} \/ (pool'[k] = "ended" /\ Drained(k) /\ UNCHANGED queued)
    BY <1>5 DEF RunStarts, Round, Stops, RunEnds, Tick, TypeOK, PoolOK
  <2>3. ASSUME NEW l \in Term PROVE TermOK(l)'
    <3>1. CASE l = k
      BY <1>0, <2>1, <2>2, <3>1 DEF TermOK, Drained
    <3>2. CASE l # k
      BY <1>0, <2>1, <3>2 DEF TermOK, Drained
    <3>. QED  BY <3>1, <3>2
  <2>. QED  BY <1>a, <2>1, <2>3
<1>6. ASSUME NEW k \in Term, NEW w \in Worker,
             \/ Collects(k) \/ TakesJob(k, w) \/ SetsDays(k, w) \/ Sends(k, w)
             \/ \E outcome \in Outcome : Finishes(k, w, outcome)
      PROVE  TermInv'
  <2>1. /\ UNCHANGED <<mode, leader, term, abandoned, open, pool>>
        /\ \A l \in Term \ {k} : /\ queued'[l] = queued[l] /\ task'[l] = task[l]
                                /\ results'[l] = results[l]
    BY <1>6 DEF Collects, TakesJob, SetsDays, Sends, Finishes, leaderVars, storeVars, TypeOK, PoolOK
  <2>2. ~Drained(k)
    BY <1>6 DEF Collects, TakesJob, SetsDays, Sends, Finishes, Drained, Idle
  <2>3. ASSUME NEW l \in Term PROVE TermOK(l)'
    <3>1. CASE l = k
      BY <1>0, <2>1, <2>2, <3>1 DEF TermOK
    <3>2. CASE l # k
      BY <1>0, <2>1, <3>2 DEF TermOK, Drained
    <3>. QED  BY <3>1, <3>2
  <2>. QED  BY <1>a, <2>1, <2>3
<1>7. ASSUME NEW k \in Term, Collects(k) PROVE TermInv'
  BY <1>6, <1>7, ProcessAssumption
<1>8. ASSUME Signal \/ Fatal \/ Admit \/ Handle \/ Shutdown \/ ShutdownDone \/ ShutdownTimeout
             \/ Exit \/ UNCHANGED vars
      PROVE  TermInv'
  <2>1. UNCHANGED <<mode, leader, term, abandoned, open, pool, queued, task, results>>
    BY <1>8 DEF Signal, Fatal, Admit, Handle, Shutdown, ShutdownDone, ShutdownTimeout, Exit, vars,
                leaderVars, poolVars, storeVars
  <2>. QED  BY <1>a, <1>b, <2>1
<1>9. ASSUME Join PROVE TermInv'
  <2>1. /\ leader = "returned"
        /\ UNCHANGED <<mode, leader, term, abandoned, pool, queued, task, results>>
    BY <1>9 DEF Join, leaderVars, poolVars
  <2>. QED  BY <1>b, <2>1 DEF TermInv, TermOK
<1>. QED  BY StepCases, <1>1, <1>2, <1>3, <1>4, <1>5, <1>6, <1>7, <1>8, <1>9

-----------------------------------------------------------------------------
(* The counter of checks                                                   *)

\* Nothing is counted at the start, and nothing is in flight.
LEMMA CountInit == Init => CountersAddUp
<1>. SUFFICES ASSUME Init PROVE CountersAddUp
  OBVIOUS
<1>1. Held = {} /\ Waiting = {}
  BY DEF Init, Held, Waiting, Idle
<1>. QED  BY <1>1, FS_EmptySet DEF Init, CountersAddUp

\* What is in flight can be counted: terms and workers are finite.
LEMMA FiniteInFlight == IsFiniteSet(Held) /\ IsFiniteSet(Waiting)
<1>1. IsFiniteSet(Term) /\ IsFiniteSet(Term \X Worker)
  <2>1. MaxTerms \in Int /\ 1 \in Int /\ IsFiniteSet(Worker)
    BY ProcessAssumption
  <2>2. IsFiniteSet(Term)
    BY <2>1, FS_Interval DEF Term
  <2>. QED  BY <2>1, <2>2, FS_Product
<1>2. Held \subseteq Term \X Worker /\ Waiting \subseteq Term
  BY DEF Held, Waiting
<1>. QED  BY <1>1, <1>2, FS_Subset

\* A step of one worker changes what is held by that worker only.
LEMMA HeldChanges ==
    ASSUME NEW k \in Term, NEW w \in Worker,
           \A l \in Term, v \in Worker : <<l, v>> # <<k, w>> => task'[l][v] = task[l][v]
    PROVE  Held' = IF task'[k][w].at \in {"set", "send"} THEN Held \cup {<<k, w>>}
                                                        ELSE Held \ {<<k, w>>}
<1>1. ASSUME NEW p \in Term \X Worker, p # <<k, w>> PROVE p \in Held' <=> p \in Held
  <2>1. PICK l \in Term, v \in Worker : p = <<l, v>>
    OBVIOUS
  <2>2. task'[l][v] = task[l][v]
    BY <1>1, <2>1
  <2>. QED  BY <2>1, <2>2 DEF Held
<1>2. <<k, w>> \in Held' <=> task'[k][w].at \in {"set", "send"}
  BY DEF Held
<1>3. Held \subseteq Term \X Worker /\ Held' \subseteq Term \X Worker
  BY DEF Held
<1>. QED  BY <1>1, <1>2, <1>3

\* A step moves an outcome from one place to the next, and counts it once.
LEMMA CountNext == TypeOK /\ CountersAddUp /\ [Next]_vars => CountersAddUp'
<1>. SUFFICES ASSUME TypeOK, CountersAddUp, [Next]_vars PROVE CountersAddUp'
  OBVIOUS
<1>0. /\ checks \in Nat /\ collected \in Nat
      /\ Cardinality(Held) \in Nat /\ Cardinality(Waiting) \in Nat
      /\ checks = collected + Cardinality(Held) + Cardinality(Waiting)
  BY FiniteInFlight, FS_CardinalityType DEF TypeOK, StoreOK, MetricOK, CountersAddUp
<1>a. ASSUME UNCHANGED <<task, results, checks, collected>> PROVE CountersAddUp'
  BY <1>a DEF CountersAddUp, Held, Waiting
<1>1. ASSUME TermStarts \/ LeadEnds("session") \/ LeadEnds("signal") \/ DemoteDone
             \/ DemoteTimeout \/ Returns
      PROVE  CountersAddUp'
  BY <1>1, <1>a DEF TermStarts, LeadEnds, DemoteDone, DemoteTimeout, Resign, Returns,
                    poolVars, storeVars, metricVars
<1>2. ASSUME NEW k \in Term, RunStarts(k) \/ Round(k) \/ Stops(k) \/ RunEnds(k) \/ Tick(k)
      PROVE  CountersAddUp'
  BY <1>2, <1>a DEF RunStarts, Round, Stops, RunEnds, Tick, storeVars, metricVars
<1>3. ASSUME Signal \/ Fatal \/ Admit \/ Handle \/ Shutdown \/ ShutdownDone \/ ShutdownTimeout
             \/ Join \/ Exit \/ UNCHANGED vars
      PROVE  CountersAddUp'
  BY <1>3, <1>a DEF Signal, Fatal, Admit, Handle, Shutdown, ShutdownDone, ShutdownTimeout, Join,
                    Exit, vars, poolVars, storeVars, metricVars
<1>4. ASSUME NEW k \in Term, NEW w \in Worker, TakesJob(k, w) \/ SetsDays(k, w)
      PROVE  CountersAddUp'
  <2>1. /\ \A l \in Term, v \in Worker : <<l, v>> # <<k, w>> => task'[l][v] = task[l][v]
        /\ UNCHANGED <<results, checks, collected>>
    BY <1>4 DEF TakesJob, SetsDays, storeVars, metricVars, TypeOK, PoolOK
  <2>2. task'[k][w].at \in {"set", "send"} <=> <<k, w>> \in Held
    BY <1>4 DEF TakesJob, SetsDays, Held, Idle, Task, TypeOK, PoolOK
  <2>3. Held' = IF task'[k][w].at \in {"set", "send"} THEN Held \cup {<<k, w>>}
                                                     ELSE Held \ {<<k, w>>}
    BY <2>1, HeldChanges
  <2>4. Held' = Held
    BY <2>2, <2>3
  <2>. QED  BY <2>1, <2>4 DEF CountersAddUp, Waiting
<1>5. ASSUME NEW k \in Term, NEW w \in Worker, NEW outcome \in Outcome, Finishes(k, w, outcome)
      PROVE  CountersAddUp'
  <2>1. /\ \A l \in Term, v \in Worker : <<l, v>> # <<k, w>> => task'[l][v] = task[l][v]
        /\ task'[k][w].at \in {"set", "send"} /\ task[k][w].at = "check"
        /\ checks' = checks + 1 /\ UNCHANGED <<results, collected>>
    BY <1>5 DEF Finishes, Record, storeVars, TypeOK, PoolOK
  <2>2. Held' = Held \cup {<<k, w>>} /\ <<k, w>> \notin Held
    BY <2>1, HeldChanges DEF Held
  <2>3. Cardinality(Held') = Cardinality(Held) + 1
    BY <2>2, FiniteInFlight, FS_AddElement
  <2>4. Waiting' = Waiting
    BY <2>1 DEF Waiting
  <2>. QED  BY <1>0, <2>1, <2>3, <2>4 DEF CountersAddUp
<1>6. ASSUME NEW k \in Term, NEW w \in Worker, Sends(k, w)
      PROVE  CountersAddUp'
  <2>1. /\ \A l \in Term, v \in Worker : <<l, v>> # <<k, w>> => task'[l][v] = task[l][v]
        /\ task'[k][w].at = "idle" /\ task[k][w].at = "send"
        /\ UNCHANGED <<checks, collected>>
    BY <1>6 DEF Sends, Idle, storeVars, metricVars, TypeOK, PoolOK
  <2>2. Held' = Held \ {<<k, w>>} /\ <<k, w>> \in Held
    BY <2>1, HeldChanges DEF Held
  <2>3. Cardinality(Held') = Cardinality(Held) - 1
    BY <2>2, FiniteInFlight, FS_RemoveElement
  <2>4. Waiting' = Waiting \cup {k} /\ k \notin Waiting
    BY <1>6 DEF Sends, Waiting, TypeOK, PoolOK
  <2>5. Cardinality(Waiting') = Cardinality(Waiting) + 1
    BY <2>4, FiniteInFlight, FS_AddElement
  <2>. QED  BY <1>0, <2>1, <2>3, <2>5 DEF CountersAddUp
<1>7. ASSUME NEW k \in Term, Collects(k) PROVE CountersAddUp'
  <2>1. results[k] # <<>> /\ Tail(results[k]) = <<>>
    BY <1>7 DEF Collects, TypeOK, PoolOK
  <2>2. /\ results' = [results EXCEPT ![k] = Tail(results[k])]
        /\ collected' = collected + 1 /\ UNCHANGED <<task, checks>>
    BY <1>7 DEF Collects, metricVars
  <2>3. Waiting' = Waiting \ {k} /\ k \in Waiting
    BY <2>1, <2>2 DEF Waiting, TypeOK, PoolOK
  <2>4. Cardinality(Waiting') = Cardinality(Waiting) - 1
    BY <2>3, FiniteInFlight, FS_RemoveElement
  <2>5. Held' = Held
    BY <2>2 DEF Held
  <2>. QED  BY <1>0, <2>2, <2>4, <2>5 DEF CountersAddUp
<1>. QED  BY StepCases, <1>1, <1>2, <1>3, <1>4, <1>5, <1>6, <1>7

-----------------------------------------------------------------------------
(* Requests                                                                *)

\* The server is shut down before the database is closed, and lets nobody in
\* after that.
LEMMA RequestNext == RequestInv /\ TypeOK /\ [Next]_vars => RequestInv'
<1>. SUFFICES ASSUME RequestInv, TypeOK, [Next]_vars PROVE RequestInv'
  OBVIOUS
<1>. USE DEF RequestInv
<1>a. ASSUME UNCHANGED <<main, open, request, late>> PROVE RequestInv'
  BY <1>a
<1>1. ASSUME TermStarts \/ LeadEnds("session") \/ LeadEnds("signal") \/ DemoteDone
             \/ DemoteTimeout \/ Returns
      PROVE  RequestInv'
  BY <1>1, <1>a DEF TermStarts, LeadEnds, DemoteDone, DemoteTimeout, Resign, Returns,
                    mainVars, storeVars
<1>2. ASSUME NEW k \in Term, RunStarts(k) \/ Round(k) \/ Stops(k) \/ RunEnds(k) \/ Tick(k)
      PROVE  RequestInv'
  BY <1>2, <1>a DEF RunStarts, Round, Stops, RunEnds, Tick, mainVars, storeVars
<1>3. ASSUME NEW k \in Term, Collects(k) PROVE RequestInv'
  BY <1>3, <1>a DEF Collects, mainVars
<1>4. ASSUME NEW k \in Term, NEW w \in Worker,
             \/ TakesJob(k, w) \/ SetsDays(k, w) \/ Sends(k, w)
             \/ \E outcome \in Outcome : Finishes(k, w, outcome)
      PROVE  RequestInv'
  BY <1>4, <1>a DEF TakesJob, SetsDays, Sends, Finishes, mainVars, storeVars
<1>5. ASSUME Signal \/ Admit \/ Handle \/ Fatal \/ Exit PROVE RequestInv'
  BY <1>5 DEF Signal, Admit, Handle, Fatal, Exit, storeVars
<1>6. ASSUME Shutdown \/ ShutdownDone \/ ShutdownTimeout PROVE RequestInv'
  BY <1>6 DEF Shutdown, ShutdownDone, ShutdownTimeout, storeVars
<1>7. ASSUME Join PROVE RequestInv'
  BY <1>7 DEF Join
<1>8. ASSUME UNCHANGED vars PROVE RequestInv'
  BY <1>8, <1>a DEF vars, mainVars, storeVars
<1>. QED  BY StepCases, <1>1, <1>2, <1>3, <1>4, <1>5, <1>6, <1>7, <1>8

\* An answer of few rows, which is an error only of a database that is closed.
Proper(a, db) == a.rows <= 1000 /\ (a.code = 500 => ~db)

\* A handler asks for 1000 rows at most, and fails only on a closed database.
LEMMA AnswersProper ==
    ASSUME NEW q \in Api!Request, NEW db \in BOOLEAN
    PROVE  Proper(Api!Answer(q, db), db)
<1>1. Api!Limit(q.limit, 20) <= 1000 /\ Api!Limit(q.limit, 50) <= 1000
  BY DEF Api!Limit
<1>2. ASSUME NEW rows, rows <= 1000 PROVE Proper(Api!Read(db, rows), db)
  BY <1>2 DEF Api!Read, Api!Refused, Proper
<1>3. Proper(Api!Refused(400), db) /\ Proper(Api!Refused(405), db)
  BY DEF Api!Refused, Proper
<1>4. /\ Proper(Api!Read(db, 0), db) /\ Proper(Api!Read(db, Api!Limit(q.limit, 20)), db)
      /\ Proper(Api!Read(db, Api!Limit(q.limit, 50)), db)
  BY <1>1, <1>2
<1>5. Proper(Api!Status(q, db), db)
  <2>1. Api!Status(q, db) \in {Api!Refused(405), Api!Read(db, 0)}
    BY DEF Api!Status
  <2>. QED  BY <1>3, <1>4, <2>1
<1>6. Proper(Api!History(q, db), db)
  <2>1. Api!History(q, db)
          \in {Api!Refused(405), Api!Refused(400), Api!Read(db, Api!Limit(q.limit, 20))}
    BY DEF Api!History
  <2>. QED  BY <1>3, <1>4, <2>1
<1>7. Proper(Api!Alerts(q, db), db)
  <2>1. Api!Alerts(q, db) \in {Api!Refused(405), Api!Read(db, Api!Limit(q.limit, 50))}
    BY DEF Api!Alerts
  <2>. QED  BY <1>3, <1>4, <2>1
<1>8. Proper(Api!Diagnoses(q, db), db)
  <2>1. Api!Diagnoses(q, db) \in {Api!Refused(405), Api!Read(db, Api!Limit(q.limit, 20))}
    BY DEF Api!Diagnoses
  <2>. QED  BY <1>3, <1>4, <2>1
<1>9. q.path \in {"status", "history", "alerts", "diagnoses"}
  BY DEF Api!Request
<1>. QED  BY <1>9, <1>5, <1>6, <1>7, <1>8 DEF Api!Answer

-----------------------------------------------------------------------------
(* The gauges                                                              *)

\* At the start the gauges are not set, and nothing is in flight.
LEMMA GaugeInit == Init => GaugeInv
<1>. SUFFICES ASSUME Init PROVE GaugeInv
  OBVIOUS
<1>1. Held = {} /\ Waiting = {} /\ \A k \in Term, w \in Worker : task[k][w].at = "idle"
  BY DEF Init, Held, Waiting, Idle
<1>. QED  BY <1>1 DEF Init, GaugeInv

\* The part of the invariant that holds while checks do not overlap.
Agreed ==
    /\ \A p \in Held : task[p[1]][p[2]].outcome.status = up
    /\ \A k \in Waiting : Head(results[k]).status = up
    /\ Settled /\ last # "lost" => up = last
    /\ (\A p \in Held : task[p[1]][p[2]].at # "set") => \A d \in days : d < Warn => up = "down"

\* An outcome is set in the gauge by the worker that finds it, and goes its way
\* to the row unchanged.
LEMMA GaugeNext == TypeOK /\ GaugeInv /\ [Next]_vars => GaugeInv'
<1>. SUFFICES ASSUME TypeOK, GaugeInv, [Next]_vars PROVE GaugeInv'
  OBVIOUS
<1>0. /\ type # "cert" => days = {}
      /\ \A k \in Term, w \in Worker :
            task[k][w].at = "set" => type = "cert" /\ Cautious(task[k][w].outcome)
      /\ ~mixed => Agreed
  BY DEF GaugeInv, Agreed
<1>a. ASSUME UNCHANGED <<type, task, results, metricVars, last>> PROVE GaugeInv'
  BY <1>a DEF GaugeInv, Held, Waiting, Settled, Cautious, metricVars
<1>b. ASSUME NEW k \in Term, NEW w \in Worker, UNCHANGED type, type # "cert" => days' = {},
             \A l \in Term, v \in Worker : <<l, v>> # <<k, w>> => task'[l][v] = task[l][v],
             task'[k][w].at = "set" => type = "cert" /\ Cautious(task'[k][w].outcome),
             ~mixed' => Agreed'
      PROVE  GaugeInv'
  <2>1. ASSUME NEW l \in Term, NEW v \in Worker, task'[l][v].at = "set"
        PROVE  type = "cert" /\ Cautious(task'[l][v].outcome)
    BY <1>0, <1>b, <2>1
  <2>2. \A o : Cautious(o) <=> Cautious(o)'
    BY <1>b DEF Cautious
  <2>. QED  BY <1>b, <2>1, <2>2 DEF GaugeInv, Agreed, Cautious
<1>1. ASSUME TermStarts \/ LeadEnds("session") \/ LeadEnds("signal") \/ DemoteDone
             \/ DemoteTimeout \/ Returns
      PROVE  GaugeInv'
  BY <1>1, <1>a DEF TermStarts, LeadEnds, DemoteDone, DemoteTimeout, Resign, Returns,
                    poolVars, storeVars
<1>2. ASSUME NEW k \in Term, RunStarts(k) \/ Round(k) \/ Stops(k) \/ RunEnds(k) \/ Tick(k)
      PROVE  GaugeInv'
  BY <1>2, <1>a DEF RunStarts, Round, Stops, RunEnds, Tick, storeVars
<1>3. ASSUME Signal \/ Fatal \/ Admit \/ Handle \/ Shutdown \/ ShutdownDone \/ ShutdownTimeout
             \/ Join \/ Exit \/ UNCHANGED vars
      PROVE  GaugeInv'
  BY <1>3, <1>a DEF Signal, Fatal, Admit, Handle, Shutdown, ShutdownDone, ShutdownTimeout, Join,
                    Exit, vars, poolVars, storeVars
<1>4. ASSUME NEW k \in Term, NEW w \in Worker, TakesJob(k, w) PROVE GaugeInv'
  <2>1. /\ task[k][w].at = "idle" /\ task'[k][w].at = "check"
        /\ \A l \in Term, v \in Worker : <<l, v>> # <<k, w>> => task'[l][v] = task[l][v]
        /\ UNCHANGED <<type, results, up, days, mixed, last>>
    BY <1>4 DEF TakesJob, Idle, storeVars, metricVars, TypeOK, PoolOK
  <2>2. Held' = Held /\ \A p \in Held : task'[p[1]][p[2]] = task[p[1]][p[2]]
    <3>1. Held' = Held \ {<<k, w>>} /\ <<k, w>> \notin Held
      BY <2>1, HeldChanges DEF Held
    <3>. QED  BY <2>1, <3>1 DEF Held
  <2>3. Waiting' = Waiting
    BY <2>1 DEF Waiting
  <2>4. ~mixed' => Agreed'
    BY <1>0, <2>1, <2>2, <2>3 DEF Agreed, Settled
  <2>. QED  BY <1>0, <1>b, <2>1, <2>4
<1>5. ASSUME NEW k \in Term, NEW w \in Worker, NEW outcome \in Outcome,
             Finishes(k, w, outcome), Cautious(outcome)
      PROVE  GaugeInv'
  <2>1. /\ task'[k][w] = [at |-> IF type = "cert" THEN "set" ELSE "send", outcome |-> outcome]
        /\ \A l \in Term, v \in Worker : <<l, v>> # <<k, w>> => task'[l][v] = task[l][v]
        /\ up' = outcome.status
        /\ UNCHANGED <<type, results, days, last>>
    BY <1>5 DEF Finishes, Record, storeVars, TypeOK, PoolOK
  <2>2. Held' = Held \cup {<<k, w>>} /\ Waiting' = Waiting
    BY <2>1, HeldChanges DEF Waiting
  <2>3. ~mixed' => Held' = {<<k, w>>} /\ Waiting' = {}
    BY <1>5, <2>2 DEF Finishes, Settled
  <2>4. ASSUME ~mixed' PROVE Agreed'
    <3>1. \A p \in Held' : p[1] = k /\ p[2] = w
      BY <2>3, <2>4
    <3>2. task'[k][w].outcome = outcome /\ (type = "cert" => task'[k][w].at = "set")
      BY <2>1
    <3>3. <<k, w>> \in Held' /\ <<k, w>>[1] = k /\ <<k, w>>[2] = w /\ ~Settled'
      BY <2>2 DEF Settled
    <3>. QED  BY <1>0, <2>1, <2>3, <2>4, <3>1, <3>2, <3>3 DEF Agreed
  <2>5. task'[k][w].at = "set" => type = "cert" /\ Cautious(task'[k][w].outcome)
    BY <1>5, <2>1
  <2>. QED  BY <1>0, <1>b, <2>1, <2>4, <2>5
<1>6. ASSUME NEW k \in Term, NEW w \in Worker, SetsDays(k, w) PROVE GaugeInv'
  <2>0. task[k][w] \in [at : {"set", "send"}, outcome : Outcome]
    BY <1>6 DEF SetsDays, Task, TypeOK, PoolOK
  <2>1. /\ task[k][w].at = "set" /\ days' = {task[k][w].outcome.days}
        /\ task'[k][w].at = "send" /\ task'[k][w].outcome = task[k][w].outcome
        /\ \A l \in Term, v \in Worker : <<l, v>> # <<k, w>> => task'[l][v] = task[l][v]
        /\ UNCHANGED <<type, results, up, mixed, last>>
    BY <1>6, <2>0 DEF SetsDays, storeVars, TypeOK, PoolOK
  <2>2. Held' = Held /\ <<k, w>> \in Held
    BY <2>1, HeldChanges DEF Held
  <2>3. Waiting' = Waiting
    BY <2>1 DEF Waiting
  <2>4. \A p \in Held : task'[p[1]][p[2]].outcome = task[p[1]][p[2]].outcome
    BY <2>1 DEF Held
  <2>5. type = "cert" /\ Cautious(task[k][w].outcome)
    BY <1>0, <2>1
  <2>6. ~mixed => task[k][w].outcome.status = up
    BY <1>0, <2>2 DEF Agreed
  <2>7. ~mixed' => Agreed'
    BY <1>0, <2>1, <2>2, <2>3, <2>4, <2>5, <2>6 DEF Agreed, Settled, Cautious
  <2>. QED  BY <1>b, <2>1, <2>5, <2>7
<1>7. ASSUME NEW k \in Term, NEW w \in Worker, Sends(k, w) PROVE GaugeInv'
  <2>1. /\ task[k][w].at = "send" /\ task'[k][w].at = "idle"
        /\ \A l \in Term, v \in Worker : <<l, v>> # <<k, w>> => task'[l][v] = task[l][v]
        /\ UNCHANGED <<type, up, days, mixed, last>>
    BY <1>7 DEF Sends, Idle, storeVars, metricVars, TypeOK, PoolOK
  <2>2. Held' = Held \ {<<k, w>>} /\ <<k, w>> \in Held
    BY <2>1, HeldChanges DEF Held
  <2>3. \A p \in Held' : task'[p[1]][p[2]] = task[p[1]][p[2]]
    BY <2>1, <2>2 DEF Held
  <2>4. /\ Waiting' = Waiting \cup {k} /\ Head(results'[k]) = task[k][w].outcome
        /\ \A l \in Term \ {k} : results'[l] = results[l]
    BY <1>7 DEF Sends, Waiting, TypeOK, PoolOK
  <2>5. ~mixed => task[k][w].outcome.status = up
    BY <1>0, <2>2 DEF Agreed
  <2>6. Waiting \subseteq Term /\ ~Settled'
    BY <2>4 DEF Waiting, Settled
  <2>7. (\A p \in Held' : task'[p[1]][p[2]].at # "set") => \A p \in Held : task[p[1]][p[2]].at # "set"
    BY <2>1, <2>2, <2>3 DEF Held
  <2>8. ASSUME ~mixed PROVE Agreed'
    <3>1. \A l \in Waiting' : Head(results'[l]).status = up
      BY <1>0, <2>4, <2>5, <2>6, <2>8 DEF Agreed
    <3>2. \A p \in Held' : task'[p[1]][p[2]].outcome.status = up
      BY <1>0, <2>2, <2>3, <2>8 DEF Agreed
    <3>. QED  BY <1>0, <2>1, <2>6, <2>7, <2>8, <3>1, <3>2 DEF Agreed
  <2>. QED  BY <1>0, <1>b, <2>1, <2>8
<1>8. ASSUME NEW k \in Term, Collects(k) PROVE GaugeInv'
  <2>1. results[k] # <<>> /\ Tail(results[k]) = <<>>
    BY <1>8 DEF Collects, TypeOK, PoolOK
  <2>2. /\ results' = [results EXCEPT ![k] = Tail(results[k])]
        /\ last' \in {Head(results[k]).status, "lost"}
        /\ UNCHANGED <<type, task, up, days, mixed>>
    BY <1>8 DEF Collects, metricVars
  <2>3. Waiting' = Waiting \ {k} /\ k \in Waiting /\ Held' = Held
    BY <2>1, <2>2 DEF Waiting, Held, TypeOK, PoolOK
  <2>4. \A l \in Waiting' : results'[l] = results[l]
    BY <2>2, <2>3 DEF Waiting, TypeOK, PoolOK
  <2>5. ~mixed => Head(results[k]).status = up
    BY <1>0, <2>3 DEF Agreed
  <2>6. ~mixed' => Agreed'
    BY <1>0, <2>2, <2>3, <2>4, <2>5 DEF Agreed
  <2>7. \A o : Cautious(o) <=> Cautious(o)'
    BY <2>2 DEF Cautious
  <2>. QED  BY <1>0, <2>2, <2>6, <2>7 DEF GaugeInv, Agreed, Cautious
<1>. QED  BY StepCases, <1>1, <1>2, <1>3, <1>4, <1>5, <1>6, <1>7, <1>8

-----------------------------------------------------------------------------
(* The theorems                                                            *)

\* The inductive invariant of a process: its types, the order of its terms, the
\* sum of its counters, its requests and its gauges.
THEOREM InvCorrect == Spec => []IInv
<1>1. Init => IInv
  <2>1. Init => RequestInv
    BY DEF Init, RequestInv
  <2>. QED  BY <2>1, TypeInit, TermInit, CountInit, GaugeInit DEF IInv
<1>2. IInv /\ [Next]_vars => IInv'
  BY TypeNext, TermNext, CountNext, RequestNext, GaugeNext DEF IInv
<1>. QED  BY <1>1, <1>2, PTL DEF Spec

\* The variables keep their types: in particular no pool has more than one job
\* and one result waiting for its target.
THEOREM TypeCorrect == Spec => []TypeOK
<1>1. IInv => TypeOK
  BY DEF IInv
<1>. QED  BY <1>1, InvCorrect, PTL

\* main closes the database only when no pool that is still waited for has
\* anything under way.
THEOREM NothingAfterClose == Spec => []ClosedMeansDrained
<1>1. IInv => ClosedMeansDrained
  <2>. SUFFICES ASSUME TypeOK, TermInv, ~open, NEW k \in Term PROVE Drained(k) \/ k \in abandoned
    BY DEF IInv, ClosedMeansDrained
  <2>1. leader = "returned" /\ k \in Nat /\ term \in Nat
    BY DEF TermInv, Term, TypeOK, LeaderOK
  <2>2. CASE k > term
    BY <2>2 DEF TermInv
  <2>3. CASE k <= term
    BY <2>1, <2>3 DEF TermInv
  <2>. QED  BY <2>1, <2>2, <2>3
<1>. QED  BY <1>1, InvCorrect, PTL

\* Every check that the metrics count is held by a worker, waits in a channel or
\* has been collected: none is lost or counted twice.
THEOREM EveryCheckCounted == Spec => []CountersAddUp
<1>1. IInv => CountersAddUp
  BY DEF IInv
<1>. QED  BY <1>1, InvCorrect, PTL

\* A request that was let on is answered out of an open database and with 1000
\* rows at most, unless Shutdown gave up waiting for it.
THEOREM Served == Spec => []ServedWhileOpen
<1>1. IInv => ServedWhileOpen
  <2>. SUFFICES ASSUME TypeOK, RequestInv, request, NEW r \in Queries
                PROVE  LET a == Api!Answer(r, open)
                       IN  a.rows <= 1000 /\ (a.code = 500 => late)
    BY DEF IInv, ServedWhileOpen
  <2>1. r \in Api!Request /\ open \in BOOLEAN
    BY ProcessAssumption DEF TypeOK, StoreOK
  <2>2. Proper(Api!Answer(r, open), open)
    BY <2>1, AnswersProper
  <2>. QED  BY <2>2 DEF RequestInv, Proper
<1>. QED  BY <1>1, InvCorrect, PTL

\* When nothing is in flight and the last checks did not overlap, the gauge of a
\* target says what its last row says.
THEOREM GaugeAgrees == Spec => []GaugeTellsLast
<1>1. IInv => GaugeTellsLast
  BY DEF IInv, GaugeInv, GaugeTellsLast
<1>. QED  BY <1>1, InvCorrect, PTL

\* And when it shows few days left of a certificate, it shows the target down.
THEOREM LowDaysShown == Spec => []LowDaysMeansDown
<1>1. IInv => LowDaysMeansDown
  BY DEF IInv, GaugeInv, LowDaysMeansDown, Settled
<1>. QED  BY <1>1, InvCorrect, PTL
=============================================================================
