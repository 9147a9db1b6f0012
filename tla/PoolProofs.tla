----------------------------- MODULE PoolProofs -----------------------------
(***************************************************************************)
(* Pool keeps its invariants, for any configurations, any number of        *)
(* workers and any bounds: the order in which Run closes its channels and  *)
(* waits is such that nothing is sent on a closed channel, and that every  *)
(* check has been collected when Run returns; and as a round puts no more  *)
(* jobs into the channel than there are targets, a target is skipped only  *)
(* for the jobs of an earlier one.                                         *)
(***************************************************************************)
EXTENDS Pool, TLAPS

\* A new pool: no call of Run, no goroutine.
LEMMA InvInit == Init => Inv
  <1> SUFFICES ASSUME Init PROVE Inv
    OBVIOUS
  <1>1. TypeOK
    <2>1. worker \in [Worker -> WorkerState]
      BY DEF Init, WorkerState, NoJob
    <2>2. window \in [Name -> Seq(Nat)] /\ \A n \in Name : Len(window[n]) <= WindowCap
      BY WindowAssumption DEF Init
    <2>3. reloadCh \in Seq(Config) /\ Len(reloadCh) <= 1 /\ todo \in Seq(Name)
          /\ jobs \in Seq(Job) /\ Len(jobs) <= jobsCap
          /\ results \in Seq(Result) /\ Len(results) <= jobsCap
      BY DEF Init
    <2>4. targets \in Config /\ run = "idle" /\ ctxDone = FALSE /\ tickC = FALSE /\ jobsCap = 0
          /\ jobsClosed = TRUE /\ resultsClosed = TRUE /\ collector = FALSE
          /\ clock = 0 /\ pending = {} /\ round = 0
      BY DEF Init
    <2>5. reloads \in 0 .. MaxReloads /\ runs \in 0 .. MaxRuns
      BY PoolAssumption DEF Init
    <2> QED
      BY <2>1, <2>2, <2>3, <2>4, <2>5 DEF TypeOK
  <1>2. PhaseInv /\ PendingInv /\ RoundInv
    BY DEF Init, PhaseInv, PendingInv, RoundInv, NoJob
  <1> QED
    BY <1>1, <1>2 DEF Inv

\* The bucket of a target never outgrows the window.
LEMMA PushType ==
    ASSUME NEW b \in Seq(Nat), Len(b) <= WindowCap, NEW s \in Nat
    PROVE  Push(b, s) \in Seq(Nat) /\ Len(Push(b, s)) <= WindowCap
  <1> DEFINE c == Append(b, s)
  <1>1. WindowCap \in Nat \ {0}
    BY WindowAssumption
  <1>2. c \in Seq(Nat) /\ Len(c) = Len(b) + 1 /\ Len(b) \in Nat
    OBVIOUS
  <1>3. CASE Len(c) > WindowCap
    <2>1. Len(c) = WindowCap + 1
      BY <1>1, <1>2, <1>3
    <2>2. Push(b, s) = SubSeq(c, 2, Len(c))
      BY <1>1, <1>3, <2>1 DEF Push
    <2>3. SubSeq(c, 2, Len(c)) \in Seq(Nat) /\ Len(SubSeq(c, 2, Len(c))) = Len(c) - 1
      BY <1>1, <1>2, <2>1
    <2> QED
      BY <1>1, <2>1, <2>2, <2>3
  <1>4. CASE ~(Len(c) > WindowCap)
    BY <1>1, <1>2, <1>4 DEF Push
  <1> QED
    BY <1>3, <1>4

\* The variables keep their types, whatever step is taken.
LEMMA TypeStep == TypeOK /\ [Next]_vars => TypeOK'
  <1> SUFFICES ASSUME TypeOK, [Next]_vars PROVE TypeOK'
    OBVIOUS
  <1> USE DEF TypeOK, poolVars, loopVars, jobVars, resultVars, historyVars
  <1>0. Config \subseteq Seq(Name) /\ MaxRuns \in Nat /\ MaxReloads \in Nat
    BY PoolAssumption
  <1>1. ASSUME RunStart PROVE TypeOK'
    <2>1. worker' \in [Worker -> WorkerState]
      BY <1>1 DEF RunStart, WorkerState
    <2>2. Len(targets) \in Nat /\ targets \in Seq(Name)
      BY <1>0
    <2>3. /\ jobs' \in Seq(Job) /\ results' \in Seq(Result) /\ todo' \in Seq(Name)
          /\ Len(jobs') <= jobsCap' /\ Len(results') <= jobsCap' /\ jobsCap' \in Nat
      BY <1>1, <2>2 DEF RunStart
    <2>4. runs' \in 0 .. MaxRuns
      BY <1>0, <1>1 DEF RunStart
    <2>5. /\ run' = "loop" /\ ctxDone' = FALSE /\ tickC' = FALSE /\ collector' = TRUE
          /\ jobsClosed' = FALSE /\ resultsClosed' = FALSE
          /\ UNCHANGED <<targets, reloadCh, window, clock, pending, reloads>>
      BY <1>1 DEF RunStart
    <2>6. round' \in Nat
      BY <1>1 DEF RunStart
    <2> QED
      BY <2>1, <2>3, <2>4, <2>5, <2>6
  <1>2. ASSUME Dispatch PROVE TypeOK'
    <2>1. todo' \in Seq(Name) /\ Head(todo) \in Name
      BY <1>2 DEF Dispatch
    <2>2. jobs' \in Seq(Job) /\ Len(jobs') <= jobsCap
      <3> DEFINE j == [name |-> Head(todo), round |-> round]
      <3>1. j \in Job
        BY <2>1 DEF Job
      <3>2. CASE Len(jobs) < jobsCap
        <4>1. jobs' = Append(jobs, j)
          BY <1>2, <3>2 DEF Dispatch
        <4> HIDE DEF j
        <4> QED
          BY <3>1, <3>2, <4>1
      <3>3. CASE ~(Len(jobs) < jobsCap)
        BY <1>2, <3>3 DEF Dispatch
      <3> QED
        BY <3>2, <3>3
    <2> QED
      BY <1>2, <2>1, <2>2 DEF Dispatch
  <1>3. ASSUME SelectTick PROVE TypeOK'
    <2>1. targets \in Seq(Name)
      BY <1>0
    <2>2. round' \in Nat
      BY <1>3 DEF SelectTick
    <2> QED
      BY <1>3, <2>1, <2>2 DEF SelectTick
  <1>4. ASSUME SelectReload PROVE TypeOK'
    BY <1>0, <1>4 DEF SelectReload
  <1>5. ASSUME SelectDone \/ JoinWorkers \/ JoinCollector \/ CollectorExit \/ Tick \/ Cancel
        PROVE TypeOK'
    BY <1>5 DEF SelectDone, JoinWorkers, JoinCollector, CollectorExit, Tick, Cancel
  <1>6. ASSUME NEW w \in Worker, Receive(w) PROVE TypeOK'
    <2>1. jobs' \in Seq(Job) /\ Len(jobs') <= jobsCap /\ Head(jobs) \in Job
      BY <1>6 DEF Receive
    <2>2. worker' \in [Worker -> WorkerState]
      BY <1>6, <2>1 DEF Receive, Become, WorkerState
    <2> QED
      BY <1>6, <2>1, <2>2 DEF Receive
  <1>7. ASSUME NEW w \in Worker, Lookup(w) PROVE TypeOK'
    <2>1. worker[w] \in [pc : {"lookup", "check"}, job : Job]
      BY <1>7 DEF Lookup, WorkerState
    <2>2. worker' \in [Worker -> WorkerState]
      BY <1>7, <2>1 DEF Lookup, Become, WorkerState
    <2> QED
      BY <1>7, <2>2 DEF Lookup
  <1>8. ASSUME NEW w \in Worker, CheckReturns(w) PROVE TypeOK'
    <2>1. worker[w].job.name \in Name
      BY <1>8 DEF CheckReturns, WorkerState, Job
    <2>2. worker' \in [Worker -> WorkerState]
      BY <1>8, <2>1 DEF CheckReturns, Become, WorkerState, Result
    <2>3. clock' \in Nat /\ pending' \subseteq 1 .. clock'
      BY <1>8 DEF CheckReturns
    <2> QED
      BY <1>8, <2>2, <2>3 DEF CheckReturns
  <1>9. ASSUME NEW w \in Worker, Send(w) PROVE TypeOK'
    <2>1. worker[w].result \in Result
      BY <1>9 DEF Send, WorkerState
    <2>2. results' \in Seq(Result) /\ Len(results') <= jobsCap
      BY <1>9, <2>1 DEF Send
    <2>3. worker' \in [Worker -> WorkerState]
      BY <1>9 DEF Send, Become, WorkerState
    <2> QED
      BY <1>9, <2>2, <2>3 DEF Send
  <1>10. ASSUME NEW w \in Worker, WorkerExit(w) PROVE TypeOK'
    <2>1. worker' \in [Worker -> WorkerState]
      BY <1>10 DEF WorkerExit, Become, WorkerState, NoJob
    <2> QED
      BY <1>10, <2>1 DEF WorkerExit
  <1>11. ASSUME Collect PROVE TypeOK'
    <2>1. Head(results) \in Result /\ results' \in Seq(Result) /\ Len(results') <= jobsCap
      BY <1>11 DEF Collect
    <2> DEFINE r == Head(results)
    <2>2. r.name \in Name /\ r.stamp \in Nat
      BY <2>1 DEF Result
    <2>3. /\ Push(window[r.name], r.stamp) \in Seq(Nat)
          /\ Len(Push(window[r.name], r.stamp)) <= WindowCap
      BY <2>2, PushType
    <2>4. window' = [window EXCEPT ![r.name] = Push(window[r.name], r.stamp)]
          /\ pending' = pending \ {r.stamp}
      BY <1>11 DEF Collect
    <2>5. window' \in [Name -> Seq(Nat)] /\ \A n \in Name : Len(window'[n]) <= WindowCap
      BY <2>2, <2>3, <2>4
    <2> QED
      BY <1>11, <2>1, <2>4, <2>5 DEF Collect
  <1>12. ASSUME NEW c \in Config, Reload(c) PROVE TypeOK'
    BY <1>0, <1>12 DEF Reload
  <1>13. CASE UNCHANGED vars
    BY <1>13 DEF vars
  <1> QED
    BY <1>1, <1>2, <1>3, <1>4, <1>5, <1>6, <1>7, <1>8, <1>9, <1>10, <1>11, <1>12, <1>13
    DEF Next, WorkerStep

\* The phases of Run close the channels in order, and a goroutine leaves only
\* when its channel is closed and drained.
LEMMA PhaseStep == TypeOK /\ PhaseInv /\ [Next]_vars => PhaseInv'
  <1> SUFFICES ASSUME TypeOK, PhaseInv, [Next]_vars PROVE PhaseInv'
    OBVIOUS
  <1> USE DEF PhaseInv, poolVars, loopVars, jobVars, resultVars, historyVars
  <1>a. worker \in [Worker -> WorkerState] /\ jobs \in Seq(Job) /\ results \in Seq(Result)
    BY DEF TypeOK
  <1>b. Worker # {}
    BY PoolAssumption
  <1>1. ASSUME RunStart PROVE PhaseInv'
    BY <1>1 DEF RunStart
  <1>2. ASSUME Dispatch PROVE PhaseInv'
    BY <1>2 DEF Dispatch
  <1>3. ASSUME SelectTick \/ SelectReload \/ Tick \/ Cancel PROVE PhaseInv'
    BY <1>3 DEF SelectTick, SelectReload, Selecting, Tick, Cancel
  <1>4. ASSUME SelectDone PROVE PhaseInv'
    BY <1>4 DEF SelectDone, Selecting
  <1>5. ASSUME JoinWorkers PROVE PhaseInv'
    BY <1>5, <1>b DEF JoinWorkers
  <1>6. ASSUME JoinCollector PROVE PhaseInv'
    BY <1>6 DEF JoinCollector
  <1>7. ASSUME NEW w \in Worker, Receive(w) PROVE PhaseInv'
    <2>1. worker' = [worker EXCEPT ![w] = [pc |-> "lookup", job |-> Head(jobs)]]
          /\ worker[w].pc = "recv" /\ jobs # <<>>
      BY <1>7 DEF Receive, Become
    <2>2. \A v \in Worker : worker'[v].pc = "exit" <=> worker[v].pc = "exit"
      BY <1>a, <2>1
    <2> QED
      BY <1>7, <2>1, <2>2 DEF Receive
  <1>8. ASSUME NEW w \in Worker, Lookup(w) \/ CheckReturns(w) \/ Send(w) PROVE PhaseInv'
    <2>1. worker[w].pc \in {"lookup", "check", "send"}
      BY <1>8 DEF Lookup, CheckReturns, Send
    <2>2. ~resultsClosed
      BY <2>1
    <2>3. \A v \in Worker : worker'[v].pc = "exit" <=> worker[v].pc = "exit"
      BY <1>8, <1>a, <2>1 DEF Lookup, CheckReturns, Send, Become, WorkerState
    <2> QED
      BY <1>8, <2>2, <2>3 DEF Lookup, CheckReturns, Send
  <1>9. ASSUME NEW w \in Worker, WorkerExit(w) PROVE PhaseInv'
    <2>1. worker' = [worker EXCEPT ![w] = NoJob] /\ worker[w].pc = "recv"
      BY <1>9 DEF WorkerExit, Become
    <2>2. ~resultsClosed
      BY <2>1
    <2> QED
      BY <1>9, <1>a, <2>1, <2>2 DEF WorkerExit, NoJob
  <1>10. ASSUME Collect \/ CollectorExit PROVE PhaseInv'
    BY <1>10 DEF Collect, CollectorExit
  <1>11. ASSUME NEW c \in Config, Reload(c) PROVE PhaseInv'
    BY <1>11 DEF Reload
  <1>12. CASE UNCHANGED vars
    BY <1>12 DEF vars
  <1> QED
    BY <1>1, <1>2, <1>3, <1>4, <1>5, <1>6, <1>7, <1>8, <1>9, <1>10, <1>11, <1>12
    DEF Next, WorkerStep

\* A result stays in the hands of its worker until it is in the channel, and in
\* the channel until it is collected.
LEMMA PendingStep == Inv /\ [Next]_vars => PendingInv'
  <1> SUFFICES ASSUME Inv, [Next]_vars PROVE PendingInv'
    OBVIOUS
  <1> USE DEF poolVars, loopVars, jobVars, resultVars, historyVars
  <1>0. PhaseInv /\ PendingInv
    BY DEF Inv
  <1>a. worker \in [Worker -> WorkerState] /\ results \in Seq(Result)
    BY DEF Inv, TypeOK
  <1>b. ASSUME pending' = pending, results' = results,
               \A v \in Worker : worker[v].pc = "send" => worker'[v] = worker[v]
        PROVE PendingInv'
    BY <1>0, <1>b DEF PendingInv
  <1>1. ASSUME RunStart PROVE PendingInv'
    <2>1. pending = {}
      <3>1. ~collector /\ resultsClosed /\ results = <<>>
        BY <1>0, <1>1 DEF PhaseInv, RunStart
      <3>2. \A w \in Worker : worker[w].pc = "exit"
        BY <1>0, <3>1 DEF PhaseInv
      <3> QED
        BY <1>0, <3>1, <3>2 DEF PendingInv
    <2> QED
      BY <1>1, <2>1 DEF RunStart, PendingInv
  <1>2. ASSUME NEW w \in Worker, Receive(w) \/ Lookup(w) \/ WorkerExit(w) PROVE PendingInv'
    <2>1. worker[w].pc # "send" /\ \A v \in Worker \ {w} : worker'[v] = worker[v]
      BY <1>2, <1>a DEF Receive, Lookup, WorkerExit, Become
    <2> QED
      BY <1>2, <1>b, <2>1 DEF Receive, Lookup, WorkerExit
  <1>3. ASSUME NEW w \in Worker, CheckReturns(w) PROVE PendingInv'
    <2>1. /\ worker[w].pc = "check"
          /\ worker'[w].pc = "send" /\ worker'[w].result.stamp = clock + 1
          /\ \A v \in Worker \ {w} : worker'[v] = worker[v]
          /\ pending' = pending \cup {clock + 1} /\ results' = results
      BY <1>3, <1>a DEF CheckReturns, Become
    <2> QED
      BY <1>0, <2>1 DEF PendingInv
  <1>4. ASSUME NEW w \in Worker, Send(w) PROVE PendingInv'
    <2>1. /\ worker[w].pc = "send" /\ worker[w].result \in Result
          /\ \A v \in Worker \ {w} : worker'[v] = worker[v]
          /\ results' = Append(results, worker[w].result) /\ pending' = pending
      BY <1>4, <1>a DEF Send, Become, WorkerState
    <2>2. \A i \in DOMAIN results : i \in DOMAIN results' /\ results'[i] = results[i]
      BY <1>a, <2>1
    <2>3. /\ Len(results) + 1 \in DOMAIN results'
          /\ results'[Len(results) + 1] = worker[w].result
      BY <1>a, <2>1
    <2> QED
      BY <1>0, <2>1, <2>2, <2>3 DEF PendingInv
  <1>5. ASSUME Collect PROVE PendingInv'
    <2>1. /\ results # <<>> /\ results' = Tail(results)
          /\ pending' = pending \ {Head(results).stamp} /\ worker' = worker
      BY <1>5 DEF Collect
    <2>2. ASSUME NEW i \in DOMAIN results, i # 1
          PROVE i - 1 \in DOMAIN results' /\ results'[i - 1] = results[i]
      BY <1>a, <2>1, <2>2
    <2>3. results[1] = Head(results)
      BY <1>a, <2>1
    <2>4. ASSUME NEW s \in pending', NEW i \in DOMAIN results, results[i].stamp = s
          PROVE \E j \in DOMAIN results' : results'[j].stamp = s
      <3>1. i # 1
        BY <2>1, <2>3, <2>4
      <3> QED
        BY <2>2, <2>4, <3>1
    <2> QED
      BY <1>0, <2>1, <2>4 DEF PendingInv
  <1>6. ASSUME Dispatch \/ SelectTick \/ SelectReload \/ SelectDone \/ JoinWorkers \/ JoinCollector
               \/ CollectorExit \/ Tick \/ Cancel
        PROVE PendingInv'
    BY <1>b, <1>6 DEF Dispatch, SelectTick, SelectReload, SelectDone, JoinWorkers,
       JoinCollector, CollectorExit, Tick, Cancel
  <1>7. ASSUME NEW c \in Config, Reload(c) PROVE PendingInv'
    BY <1>b, <1>7 DEF Reload
  <1>8. CASE UNCHANGED vars
    BY <1>b, <1>8 DEF vars
  <1> QED
    BY <1>1, <1>2, <1>3, <1>4, <1>5, <1>6, <1>7, <1>8 DEF Next, WorkerStep

\* A round is handed out one target at a time, of the targets it began with:
\* what leaves todo enters the channel, or is skipped.
LEMMA RoundStep == Inv /\ [Next]_vars => RoundInv'
  <1> SUFFICES ASSUME Inv, [Next]_vars PROVE RoundInv'
    OBVIOUS
  <1> USE DEF poolVars, loopVars, jobVars, resultVars, historyVars
  <1>0. /\ todo \in Seq(Name) /\ jobs \in Seq(Job) /\ targets \in Seq(Name) /\ round \in Nat
        /\ RoundInv
    BY PoolAssumption DEF Inv, TypeOK
  <1>a. \A i \in DOMAIN jobs : jobs[i].round \in Nat /\ jobs[i].round <= round
    <2> TAKE i \in DOMAIN jobs
    <2>1. jobs[i] \in Job
      BY <1>0
    <2> QED
      BY <1>0, <2>1 DEF Job, RoundInv
  <1>b. ASSUME UNCHANGED <<run, todo, targets, jobs, round>> PROVE RoundInv'
    BY <1>0, <1>b DEF RoundInv
  <1>1. ASSUME RunStart PROVE RoundInv'
    BY <1>0, <1>1 DEF RunStart, RoundInv
  <1>2. ASSUME Dispatch PROVE RoundInv'
    <2>1. /\ run = "loop" /\ todo # <<>> /\ todo' = Tail(todo)
          /\ UNCHANGED <<run, targets, round>>
      BY <1>2 DEF Dispatch
    <2>2. /\ Len(todo') = Len(todo) - 1 /\ Len(todo) \in Nat \ {0} /\ Len(targets) \in Nat
          /\ Len(todo) <= Len(targets)
      BY <1>0, <2>1 DEF RoundInv
    <2>3. \A i \in DOMAIN jobs : jobs[i].round = round =>
              Len(jobs) - i + 1 + Len(todo) <= Len(targets)
      BY <1>0, <2>1 DEF RoundInv
    <2>4. CASE jobs' = jobs
      BY <1>a, <2>1, <2>2, <2>3, <2>4 DEF RoundInv
    <2>5. CASE jobs' # jobs
      <3> DEFINE j == [name |-> Head(todo), round |-> round]
      <3>1. jobs' = Append(jobs, j) /\ j.round = round
        BY <1>2, <2>5 DEF Dispatch
      <3> HIDE DEF j
      <3>2. /\ Len(jobs') = Len(jobs) + 1 /\ jobs'[Len(jobs) + 1] = j
            /\ \A i \in DOMAIN jobs : jobs'[i] = jobs[i]
            /\ \A i \in DOMAIN jobs' : i \in DOMAIN jobs \/ i = Len(jobs) + 1
        BY <1>0, <3>1
      <3>3. \A i \in DOMAIN jobs' : jobs'[i].round <= round
        BY <1>0, <1>a, <3>1, <3>2
      <3>4. ASSUME NEW i \in DOMAIN jobs', jobs'[i].round = round
            PROVE  Len(jobs') - i + 1 + Len(todo') <= Len(targets)
        <4>1. Len(jobs) \in Nat /\ (i \in DOMAIN jobs \/ i = Len(jobs) + 1)
          BY <1>0, <3>2
        <4>2. CASE i \in DOMAIN jobs
          <5>1. i \in Nat /\ jobs[i].round = round
            BY <1>0, <3>2, <3>4, <4>2
          <5>2. Len(jobs) - i + 1 + Len(todo) <= Len(targets)
            BY <2>3, <4>2, <5>1
          <5> QED
            BY <2>2, <3>2, <4>1, <5>1, <5>2
        <4>3. CASE i = Len(jobs) + 1
          BY <2>2, <3>2, <4>1, <4>3
        <4> QED
          BY <4>1, <4>2, <4>3
      <3> QED
        BY <2>1, <2>2, <3>3, <3>4 DEF RoundInv
    <2> QED
      BY <2>4, <2>5
  <1>3. ASSUME SelectTick PROVE RoundInv'
    <2>1. todo' = targets /\ round' = round + 1 /\ UNCHANGED <<run, targets, jobs>>
      BY <1>3 DEF SelectTick
    <2> QED
      BY <1>0, <1>a, <2>1 DEF RoundInv
  <1>4. ASSUME SelectReload PROVE RoundInv'
    BY <1>0, <1>4 DEF SelectReload, Selecting, RoundInv
  <1>5. ASSUME SelectDone \/ JoinWorkers \/ JoinCollector PROVE RoundInv'
    BY <1>0, <1>5 DEF SelectDone, JoinWorkers, JoinCollector, RoundInv
  <1>6. ASSUME NEW w \in Worker, Receive(w) PROVE RoundInv'
    <2>1. jobs # <<>> /\ jobs' = Tail(jobs) /\ UNCHANGED <<run, todo, targets, round>>
      BY <1>6 DEF Receive
    <2>2. /\ Len(jobs') = Len(jobs) - 1 /\ Len(jobs) \in Nat
          /\ \A i \in DOMAIN jobs' : i + 1 \in DOMAIN jobs /\ jobs'[i] = jobs[i + 1] /\ i \in Nat
      BY <1>0, <2>1
    <2>3. \A i \in DOMAIN jobs' : Len(jobs') - i + 1 = Len(jobs) - (i + 1) + 1
      BY <2>2
    <2> QED
      BY <1>0, <2>1, <2>2, <2>3 DEF RoundInv
  <1>7. ASSUME NEW w \in Worker, Lookup(w) \/ CheckReturns(w) \/ Send(w) \/ WorkerExit(w)
        PROVE  RoundInv'
    BY <1>b, <1>7 DEF Lookup, CheckReturns, Send, WorkerExit
  <1>8. ASSUME Collect \/ CollectorExit \/ Tick \/ Cancel PROVE RoundInv'
    BY <1>b, <1>8 DEF Collect, CollectorExit, Tick, Cancel
  <1>9. ASSUME NEW c \in Config, Reload(c) PROVE RoundInv'
    BY <1>b, <1>9 DEF Reload
  <1>10. CASE UNCHANGED vars
    BY <1>b, <1>10 DEF vars
  <1> QED
    BY <1>1, <1>2, <1>3, <1>4, <1>5, <1>6, <1>7, <1>8, <1>9, <1>10 DEF Next, WorkerStep

\* Only a full channel makes dispatchJobs skip a target.
LEMMA SkipsWhenFull ==
    ASSUME TypeOK, Next, Skips
    PROVE  ~(Len(jobs) < jobsCap)
  <1> USE DEF poolVars, loopVars, jobVars, resultVars, historyVars
  <1>1. /\ todo \in Seq(Name) /\ jobs \in Seq(Job)
        /\ run = "loop" /\ todo # <<>> /\ todo' = Tail(todo) /\ jobs' = jobs
    BY DEF TypeOK, Skips
  <1>2. todo' # todo
    <2>1. Len(todo') = Len(todo) - 1 /\ Len(todo) \in Nat
      BY <1>1
    <2> QED
      BY <2>1
  <1>3. Dispatch
    BY <1>1, <1>2 DEF Next, WorkerStep, RunStart, SelectTick, SelectReload, SelectDone, Selecting,
       JoinWorkers, JoinCollector, Receive, Lookup, CheckReturns, Send, WorkerExit, Collect,
       CollectorExit, Tick, Reload, Cancel
  <1> QED
    <2> SUFFICES ASSUME Len(jobs) < jobsCap PROVE FALSE
      OBVIOUS
    <2>1. jobs' = Append(jobs, [name |-> Head(todo), round |-> round])
      BY <1>3 DEF Dispatch
    <2>2. Len(jobs') = Len(jobs) + 1 /\ Len(jobs) \in Nat
      BY <1>1, <2>1
    <2> QED
      BY <1>1, <2>2

\* The inductive invariant of the pool: types, phases of the shutdown, the
\* whereabouts of every result that has not been collected, and the size of what
\* is in hand of a round.
THEOREM InvCorrect == Spec => []Inv
  <1>1. Inv /\ [Next]_vars => Inv'
    BY TypeStep, PhaseStep, PendingStep, RoundStep DEF Inv
  <1> QED
    BY InvInit, <1>1, PTL DEF Spec

\* Every variable keeps to its type: the channels and the window of a target
\* never hold more than their capacity.
THEOREM TypeCorrect == Spec => []TypeOK
  BY InvCorrect, PTL DEF Inv

\* No goroutine can send on a channel that another one has closed: Run never
\* panics, whatever the number of workers and the moment of the cancellation.
THEOREM ClosedIsFinal == Spec => []NoSendOnClosed
  <1>1. Inv => NoSendOnClosed
    BY DEF Inv, PhaseInv, NoSendOnClosed
  <1> QED
    BY InvCorrect, <1>1, PTL

\* When Run returns, all its goroutines have left, and every check they made has
\* been handed to the store and the evaluator.
THEOREM Drained == Spec => []StoppedMeansDrained
  <1>1. Inv => StoppedMeansDrained
    <2> SUFFICES ASSUME Inv, run = "idle" PROVE StoppedMeansDrained
      BY DEF StoppedMeansDrained
    <2>1. ~collector /\ resultsClosed /\ results = <<>>
      BY DEF Inv, PhaseInv
    <2>2. (\A w \in Worker : worker[w].pc = "exit") /\ jobs = <<>>
      BY <2>1, PoolAssumption DEF Inv, PhaseInv
    <2>3. pending = {}
      BY <2>1, <2>2 DEF Inv, PendingInv
    <2> QED
      BY <2>1, <2>2, <2>3 DEF StoppedMeansDrained
  <1> QED
    BY InvCorrect, <1>1, PTL

\* dispatchJobs skips a target only when a job of an earlier round has not been
\* taken, unless a reload has added targets since the channel was made.
THEOREM SkipsJustified == Spec => SkipMeansBacklog
  <1>1. Inv /\ [Next]_vars => [Skips /\ Len(targets) <= jobsCap => Backlog]_vars
    <2> SUFFICES ASSUME Inv, Next, Skips, Len(targets) <= jobsCap PROVE Backlog
      OBVIOUS
    <2>1. /\ jobs \in Seq(Job) /\ todo \in Seq(Name) /\ targets \in Seq(Name)
          /\ jobsCap \in Nat /\ round \in Nat
          /\ run = "loop" /\ todo # <<>>
      BY PoolAssumption DEF Inv, TypeOK, Skips
    <2>2. Len(jobs) >= jobsCap /\ Len(todo) > 0 /\ Len(todo) <= Len(targets)
      BY <2>1, SkipsWhenFull DEF Inv, RoundInv
    <2>3. 1 \in DOMAIN jobs /\ Len(jobs) + Len(todo) > Len(targets)
      BY <2>1, <2>2
    <2>4. jobs[1].round # round /\ jobs[1].round <= round /\ jobs[1].round \in Nat
      <3>1. jobs[1].round = round => Len(jobs) - 1 + 1 + Len(todo) <= Len(targets)
        BY <2>1, <2>3 DEF Inv, RoundInv
      <3>2. jobs[1].round <= round /\ jobs[1] \in Job
        BY <2>1, <2>3 DEF Inv, RoundInv
      <3> QED
        BY <2>1, <2>3, <3>1, <3>2 DEF Job
    <2> QED
      BY <2>1, <2>3, <2>4 DEF Backlog
  <1> QED
    BY InvCorrect, <1>1, PTL DEF Spec, SkipMeansBacklog
=============================================================================
