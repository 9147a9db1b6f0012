-------------------------------- MODULE Pool --------------------------------
(***************************************************************************)
(* The scheduler of gowatch (internal/scheduler/pool.go): Pool.Run hands   *)
(* out the configured targets in rounds over a bounded jobs channel, a set *)
(* of workers checks them, and one collector stores and evaluates their    *)
(* results.  Run is called again for every term of a leader, on the same   *)
(* pool, with new channels.                                                *)
(*                                                                         *)
(* A target is its name: what a check finds out is of no concern here      *)
(* (Suppression.tla takes it from there).  Metrics and logs are left out.  *)
(***************************************************************************)
EXTENDS Window

CONSTANTS Name,         \* names of targets
          Config,       \* the configurations the file may hold: sequences of names
          Worker,       \* the worker goroutines of a Run
          MaxRounds,    \* BOUND: rounds of jobs handed out in a behaviour
          MaxReloads,   \* BOUND: reloads of the configuration
          MaxRuns       \* BOUND: calls of Run

\* LoadFromFile refuses an empty configuration and a name given twice.
ASSUME PoolAssumption ==
    /\ Config # {} /\ Config \subseteq Seq(Name)
    /\ \A c \in Config : c # <<>> /\ \A i, j \in DOMAIN c : c[i] = c[j] => i = j
    /\ Worker # {}
    /\ MaxRounds \in Nat /\ MaxReloads \in Nat /\ MaxRuns \in Nat

VARIABLES
    \* the Pool
    targets,        \* the configuration in force
    reloadCh,       \* the configuration waiting to be applied, at most one
    \* the call of Run
    run,            \* where Run is
    todo,           \* what dispatchJobs has yet to hand out
    ctxDone,        \* its context is cancelled
    tickC,          \* a tick waits in the channel of the ticker
    jobs, jobsCap, jobsClosed,
    results, resultsClosed,
    worker,         \* the workers: where they are, and the job or result in hand
    collector,      \* the collector is running
    \* the evaluator
    window,         \* the stamps of the last results of each target
    \* history and bounds
    clock,          \* the stamp of the last check to finish
    pending,        \* stamps of the checks whose result has not been collected
    round,          \* rounds handed out
    reloads, runs

poolVars    == <<targets, reloadCh>>
loopVars    == <<run, todo, ctxDone, tickC>>
jobVars     == <<jobs, jobsCap, jobsClosed>>
resultVars  == <<results, resultsClosed>>
historyVars == <<clock, pending, round, reloads, runs>>
vars == <<poolVars, loopVars, jobVars, resultVars, worker, collector, window, historyVars>>

NoJob  == [pc |-> "exit"]
Job    == [name : Name, round : Nat]
Result == [name : Name, stamp : Nat]

\* A worker waits for a job, looks its checker up, checks, sends the result, or
\* has left.
WorkerState ==
    [pc : {"recv", "exit"}] \cup [pc : {"lookup", "check"}, job : Job]
                            \cup [pc : {"send"}, result : Result]

TypeOK ==
    /\ targets \in Config
    /\ reloadCh \in Seq(Config) /\ Len(reloadCh) <= 1
    /\ run \in {"idle", "loop", "joinWorkers", "joinCollector"}
    /\ todo \in Seq(Name)
    /\ ctxDone \in BOOLEAN /\ tickC \in BOOLEAN
    /\ jobs \in Seq(Job) /\ jobsCap \in Nat /\ Len(jobs) <= jobsCap
    /\ results \in Seq(Result) /\ Len(results) <= jobsCap
    /\ jobsClosed \in BOOLEAN /\ resultsClosed \in BOOLEAN
    /\ worker \in [Worker -> WorkerState]
    /\ collector \in BOOLEAN
    /\ window \in [Name -> Seq(Nat)] /\ \A n \in Name : Len(window[n]) <= WindowCap
    /\ clock \in Nat /\ pending \subseteq 1 .. clock /\ round \in Nat
    /\ reloads \in 0 .. MaxReloads /\ runs \in 0 .. MaxRuns

Init ==
    /\ targets \in Config
    /\ reloadCh = <<>>
    /\ run = "idle" /\ todo = <<>> /\ ctxDone = FALSE /\ tickC = FALSE
    /\ jobs = <<>> /\ jobsCap = 0 /\ jobsClosed = TRUE
    /\ results = <<>> /\ resultsClosed = TRUE
    /\ worker = [w \in Worker |-> NoJob]
    /\ collector = FALSE
    /\ window = [n \in Name |-> <<>>]
    /\ clock = 0 /\ pending = {} /\ round = 0 /\ reloads = 0 /\ runs = 0

-----------------------------------------------------------------------------
(* Run and dispatchJobs: one goroutine                                     *)

\* The channels have one place per target of now, whatever is loaded later.
\* The first round is handed out at once.
\*
\* One Run is followed at a time.  leader.go:121 may start the next one beside one
\* that it has given up, on the same pool; channels, workers and collector are of
\* each Run alone, and they share the targets, the pending reload and the window.
RunStart ==
    /\ run = "idle" /\ runs < MaxRuns /\ round < MaxRounds
    /\ jobs' = <<>> /\ jobsCap' = Len(targets) /\ jobsClosed' = FALSE
    /\ results' = <<>> /\ resultsClosed' = FALSE
    /\ worker' = [w \in Worker |-> [pc |-> "recv"]]
    /\ collector' = TRUE
    /\ run' = "loop" /\ todo' = targets /\ ctxDone' = FALSE /\ tickC' = FALSE
    /\ round' = round + 1
    /\ runs' = runs + 1
    /\ UNCHANGED <<poolVars, window, clock, pending, reloads>>

\* Mutant of Dispatch: the last place of the channel is never used.
Dispatch_OffByOne ==
    /\ run = "loop" /\ todo # <<>>
    /\ todo' = Tail(todo)
    /\ jobs' = IF Len(jobs) + 1 < jobsCap
               THEN Append(jobs, [name |-> Head(todo), round |-> round])
               ELSE jobs
    /\ UNCHANGED <<poolVars, run, ctxDone, tickC, jobsCap, jobsClosed, resultVars, worker,
                   collector, window, historyVars>>

\* dispatchJobs, one target: into the channel, or skipped when it is full.
Dispatch ==
    /\ run = "loop" /\ todo # <<>>
    /\ todo' = Tail(todo)
    /\ jobs' = IF Len(jobs) < jobsCap
               THEN Append(jobs, [name |-> Head(todo), round |-> round])
               ELSE jobs
    /\ UNCHANGED <<poolVars, run, ctxDone, tickC, jobsCap, jobsClosed, resultVars, worker,
                   collector, window, historyVars>>

\* The select of Run is reached when the round is handed out.
Selecting == run = "loop" /\ todo = <<>>

SelectTick ==
    /\ Selecting
    /\ tickC
    /\ tickC' = FALSE
    /\ todo' = targets
    /\ round' = round + 1
    /\ UNCHANGED <<poolVars, run, ctxDone, jobVars, resultVars, worker, collector, window,
                   clock, pending, reloads, runs>>

\* Mutant of SelectReload: the configuration is received and not applied.
SelectReload_NotApplied ==
    /\ Selecting
    /\ reloadCh # <<>>
    /\ reloadCh' = Tail(reloadCh)
    /\ UNCHANGED <<targets, loopVars, jobVars, resultVars, worker, collector, window, historyVars>>

\* applyConfig: targets and checkers change together, under the lock.
SelectReload ==
    /\ Selecting
    /\ reloadCh # <<>>
    /\ targets' = Head(reloadCh)
    /\ reloadCh' = Tail(reloadCh)
    /\ UNCHANGED <<loopVars, jobVars, resultVars, worker, collector, window, historyVars>>

\* Mutant of SelectDone: close(jobs) is forgotten.
SelectDone_NoClose ==
    /\ Selecting
    /\ ctxDone
    /\ run' = "joinWorkers"
    /\ UNCHANGED <<poolVars, todo, ctxDone, tickC, jobVars, resultVars, worker, collector,
                   window, historyVars>>

\* ctx.Done(): no more jobs; wait for the workers.
SelectDone ==
    /\ Selecting
    /\ ctxDone
    /\ jobsClosed' = TRUE
    /\ run' = "joinWorkers"
    /\ UNCHANGED <<poolVars, todo, ctxDone, tickC, jobs, jobsCap, resultVars, worker,
                   collector, window, historyVars>>

\* Mutant of JoinWorkers: results is closed without waiting for the workers.
JoinWorkers_NoWait ==
    /\ run = "joinWorkers"
    /\ resultsClosed' = TRUE
    /\ run' = "joinCollector"
    /\ UNCHANGED <<poolVars, todo, ctxDone, tickC, jobVars, results, worker, collector,
                   window, historyVars>>

\* wg.Wait() returns: no more results; wait for the collector.
JoinWorkers ==
    /\ run = "joinWorkers"
    /\ \A w \in Worker : worker[w].pc = "exit"
    /\ resultsClosed' = TRUE
    /\ run' = "joinCollector"
    /\ UNCHANGED <<poolVars, todo, ctxDone, tickC, jobVars, results, worker, collector,
                   window, historyVars>>

\* Mutant of JoinCollector: Run returns without waiting for the collector.
JoinCollector_NoWait ==
    /\ run = "joinCollector"
    /\ run' = "idle"
    /\ UNCHANGED <<poolVars, todo, ctxDone, tickC, jobVars, resultVars, worker, collector,
                   window, historyVars>>

\* collectorWg.Wait() returns, and so does Run.
JoinCollector ==
    /\ run = "joinCollector"
    /\ ~collector
    /\ run' = "idle"
    /\ UNCHANGED <<poolVars, todo, ctxDone, tickC, jobVars, resultVars, worker, collector,
                   window, historyVars>>

-----------------------------------------------------------------------------
(* The workers                                                             *)

Become(w, state) == worker' = [worker EXCEPT ![w] = state]

Receive(w) ==
    /\ worker[w].pc = "recv"
    /\ jobs # <<>>
    /\ Become(w, [pc |-> "lookup", job |-> Head(jobs)])
    /\ jobs' = Tail(jobs)
    /\ UNCHANGED <<poolVars, loopVars, jobsCap, jobsClosed, resultVars, collector, window,
                   historyVars>>

\* The checker of a target that a reload has removed is gone: the job is skipped.
Lookup(w) ==
    /\ worker[w].pc = "lookup"
    /\ Become(w, IF \E i \in DOMAIN targets : targets[i] = worker[w].job.name
                 THEN [worker[w] EXCEPT !.pc = "check"]
                 ELSE [pc |-> "recv"])
    /\ UNCHANGED <<poolVars, loopVars, jobVars, resultVars, collector, window, historyVars>>

\* Check returns a result, stamped with the time at which it was made.
CheckReturns(w) ==
    /\ worker[w].pc = "check"
    /\ clock' = clock + 1
    /\ pending' = pending \cup {clock + 1}
    /\ Become(w, [pc |-> "send",
                  result |-> [name |-> worker[w].job.name, stamp |-> clock + 1]])
    /\ UNCHANGED <<poolVars, loopVars, jobVars, resultVars, collector, window, round, reloads,
                   runs>>

Send(w) ==
    /\ worker[w].pc = "send"
    /\ Len(results) < jobsCap
    /\ results' = Append(results, worker[w].result)
    /\ Become(w, [pc |-> "recv"])
    /\ UNCHANGED <<poolVars, loopVars, jobVars, resultsClosed, collector, window, historyVars>>

\* The range over jobs ends when the channel is closed and drained.
WorkerExit(w) ==
    /\ worker[w].pc = "recv"
    /\ jobsClosed /\ jobs = <<>>
    /\ Become(w, NoJob)
    /\ UNCHANGED <<poolVars, loopVars, jobVars, resultVars, collector, window, historyVars>>

-----------------------------------------------------------------------------
(* The collector                                                           *)

\* Save, then OnResult, which begins by pushing the result.  A failed Save is
\* logged and changes nothing else.
Collect ==
    /\ collector
    /\ results # <<>>
    /\ LET r == Head(results)
       IN  /\ window' = [window EXCEPT ![r.name] = Push(@, r.stamp)]
           /\ pending' = pending \ {r.stamp}
    /\ results' = Tail(results)
    /\ UNCHANGED <<poolVars, loopVars, jobVars, resultsClosed, worker, collector, clock, round,
                   reloads, runs>>

CollectorExit ==
    /\ collector
    /\ resultsClosed /\ results = <<>>
    /\ collector' = FALSE
    /\ UNCHANGED <<poolVars, loopVars, jobVars, resultVars, worker, window, historyVars>>

-----------------------------------------------------------------------------
(* The ticker, the watcher of the configuration, the owner of the context  *)

\* The channel of a ticker holds one tick: more are dropped.
Tick ==
    /\ run = "loop" /\ ~tickC
    /\ round < MaxRounds
    /\ tickC' = TRUE
    /\ UNCHANGED <<poolVars, run, todo, ctxDone, jobVars, resultVars, worker, collector,
                   window, historyVars>>

\* Reload never waits: a configuration not yet applied makes way for the new
\* one.  Only one goroutine calls it, so that the place it frees stays free.
Reload(c) ==
    /\ reloads < MaxReloads
    /\ reloadCh' = <<c>>
    /\ reloads' = reloads + 1
    /\ UNCHANGED <<targets, loopVars, jobVars, resultVars, worker, collector, window, clock,
                   pending, round, runs>>

Cancel ==
    /\ run = "loop" /\ ~ctxDone
    /\ ctxDone' = TRUE
    /\ UNCHANGED <<poolVars, run, todo, tickC, jobVars, resultVars, worker, collector, window,
                   historyVars>>

-----------------------------------------------------------------------------
WorkerStep(w) == Receive(w) \/ Lookup(w) \/ CheckReturns(w) \/ Send(w) \/ WorkerExit(w)

Next ==
    \/ RunStart \/ Dispatch \/ SelectTick \/ SelectReload \/ SelectDone
    \/ JoinWorkers \/ JoinCollector
    \/ (\E w \in Worker : WorkerStep(w))
    \/ Collect \/ CollectorExit
    \/ Tick \/ (\E c \in Config : Reload(c)) \/ Cancel

Spec == Init /\ [][Next]_vars

\* The goroutines of a Run make progress (a check ends at its timeout at the
\* latest), and its select, which picks at random among what is ready, does not
\* pass over one of its cases for ever.  Ticks, reloads and the cancellation
\* come from outside and may never come.
Fairness ==
    /\ WF_vars(Dispatch) /\ SF_vars(SelectTick) /\ SF_vars(SelectReload) /\ SF_vars(SelectDone)
    /\ WF_vars(JoinWorkers) /\ WF_vars(JoinCollector)
    /\ \A w \in Worker : WF_vars(WorkerStep(w))
    /\ WF_vars(Collect) /\ WF_vars(CollectorExit)

FairSpec == Spec /\ Fairness

-----------------------------------------------------------------------------
(* Properties                                                              *)

\* Nothing can be sent on a closed channel (which would panic): jobs is closed
\* by the goroutine that sends on it, results once no worker can send any more.
NoSendOnClosed ==
    /\ jobsClosed => run # "loop"
    /\ resultsClosed => \A w \in Worker : worker[w].pc = "exit"

\* When Run returns, every goroutine it started has left, every check it made
\* has reached the store and the evaluator, and no job is left behind: main
\* closes the store next.
StoppedMeansDrained ==
    run = "idle" => /\ jobs = <<>> /\ results = <<>>
                    /\ ~collector /\ \A w \in Worker : worker[w].pc = "exit"
                    /\ pending = {}

Skips == run = "loop" /\ todo # <<>> /\ todo' = Tail(todo) /\ jobs' = jobs

\* A job of an earlier round waits in the channel.
Backlog == \E i \in DOMAIN jobs : jobs[i].round < round

\* As long as the configuration has not outgrown the channel, a target is
\* skipped only when a job of an earlier round has not been taken yet.  (After
\* a reload that adds targets it may be skipped without any backlog, which the
\* comment in dispatchJobs does not reckon with.)
SkipMeansBacklog ==
    [][Skips /\ Len(targets) <= jobsCap => Backlog]_vars

\* A cancelled Run returns, after all its workers and its collector.
RunTerminates == ctxDone ~> run = "idle"

\* A running pool applies a reload, or a newer one, unless it is stopped first.
ReloadApplied ==
    \A c \in Config : (run = "loop" /\ reloadCh = <<c>>) ~>
                        \/ ctxDone \/ targets = c
                        \/ \E d \in Config \ {c} : reloadCh = <<d>>

-----------------------------------------------------------------------------
(* The inductive invariant behind NoSendOnClosed, StoppedMeansDrained and   *)
(* SkipMeansBacklog                                                        *)

\* The channels are closed in the order of the phases of Run; a worker leaves
\* only a closed and drained jobs channel, the collector a closed and drained
\* results channel.
PhaseInv ==
    /\ jobsClosed <=> run # "loop"
    /\ resultsClosed <=> run \in {"idle", "joinCollector"}
    /\ resultsClosed => \A w \in Worker : worker[w].pc = "exit"
    /\ (\E w \in Worker : worker[w].pc = "exit") => jobsClosed /\ jobs = <<>>
    /\ run = "idle" => ~collector
    /\ ~collector => resultsClosed /\ results = <<>>

\* A result not yet collected is in the channel or in the hands of a worker.
PendingInv ==
    \A s \in pending : \/ \E i \in DOMAIN results : results[i].stamp = s
                      \/ \E w \in Worker : worker[w].pc = "send" /\ worker[w].result.stamp = s

\* What is left of a round and the jobs of that round in the channel, from the
\* first of them on, are no more than the targets.
RoundInv ==
    /\ \A i \in DOMAIN jobs : jobs[i].round <= round
    /\ run = "loop" /\ todo # <<>> =>
        /\ Len(todo) <= Len(targets)
        /\ \A i \in DOMAIN jobs :
            jobs[i].round = round => Len(jobs) - i + 1 + Len(todo) <= Len(targets)

Inv == TypeOK /\ PhaseInv /\ PendingInv /\ RoundInv
=============================================================================
