------------------------------ MODULE Process -------------------------------
(***************************************************************************)
(* One process of gowatch from its start to its end (cmd/gowatch/main.go): *)
(* main, the goroutine of leader.Run or, in standalone mode, of pool.Run,  *)
(* the pools of its terms, the HTTP API, the database and the metrics.     *)
(*                                                                         *)
(* Each part is as coarse as its own module shows that it may be: the      *)
(* election is an event (Leader.tla), a Run of the pool is what is in      *)
(* flight in it (Pool.tla), a check is its outcome (Checks.tla), an answer *)
(* of the API is a function (Api.tla).  There is one target.  Every        *)
(* goroutine ends with the process, wherever it is.                        *)
(***************************************************************************)
EXTENDS Checks, FiniteSets

Api == INSTANCE Api

CONSTANTS Worker,       \* the workers of a pool
          Type,         \* types of target to look at
          CertWarnDays, \* the days of warning in the configuration
          Network,      \* answers of the network
          Queries,      \* requests for data
          MaxTerms,     \* BOUND: terms of the process, that is, calls of pool.Run
          MaxRounds     \* BOUND: rounds of checks

ASSUME ProcessAssumption ==
    /\ IsFiniteSet(Worker) /\ Worker # {}
    /\ Type \subseteq {"http", "tcp", "cert"} /\ Type # {}
    /\ CertWarnDays \in Nat /\ Network \subseteq Answers /\ Queries \subseteq Api!Request
    /\ MaxTerms \in Nat \ {0} /\ MaxRounds \in Nat \ {0}

VARIABLES
    mode, type,     \* the mode of the process and the type of its target
    \* main
    main,           \* where it is
    signalled,      \* the context of the process is cancelled
    late,           \* the server was left with a request in progress
    request,        \* a request for data is in progress, let on by RequireLeader
    \* the goroutine that runs the pools
    leader,         \* where it is: at "returned", poolDone is closed
    term,           \* the term, the last pool started
    cancelled,      \* terms whose context was cancelled by leader.Run
    abandoned,      \* terms whose pool leader.Run no longer waits for
    \* the pools
    pool,           \* Run of each term; "tick": with a tick waiting for it
    queued,         \* jobs that wait
    task,           \* the workers, with the outcome they hold
    results,        \* outcomes that wait for the collector
    rounds,         \* rounds of checks begun or on their way
    \* the database and the metrics of the target
    open,           \* the database is open
    last,           \* the result collected last: its status, if it was saved
    up, days,       \* the gauges TargetUp (1 or 0) and SSLCertExpiryDays, once set
    checks,         \* the counter CheckTotal, over all labels
    \* history
    collected,      \* results collected
    mixed           \* the last check was recorded while another was in flight

mainVars   == <<main, signalled, late, request>>
leaderVars == <<leader, term, cancelled, abandoned>>
poolVars   == <<pool, queued, task, results, rounds>>
storeVars  == <<open, last, collected>>
metricVars == <<up, days, checks, mixed>>
vars == <<mode, type, mainVars, leaderVars, poolVars, storeVars, metricVars>>

Term == 1 .. MaxTerms
Warn == WarnDays(CertWarnDays)
Idle == [at |-> "idle"]
Task == [at : {"idle", "check"}] \cup [at : {"set", "send"}, outcome : Outcome]

Phase == {"none", "starting", "run", "tick", "stop", "ended"}

MainOK ==
    /\ main \in {"serve", "shutdown", "join", "closed", "exited"}
    /\ signalled \in BOOLEAN /\ late \in BOOLEAN /\ request \in BOOLEAN

LeaderOK ==
    /\ leader \in {"follower", "leading", "demoting", "returned"}
    /\ term \in 0 .. MaxTerms /\ cancelled \subseteq Term /\ abandoned \subseteq Term

PoolOK ==
    /\ pool \in [Term -> Phase]
    /\ queued \in [Term -> 0 .. 1] /\ task \in [Term -> [Worker -> Task]]
    /\ results \in [Term -> Seq(Outcome)] /\ \A k \in Term : Len(results[k]) <= 1
    /\ rounds \in 0 .. MaxRounds

StoreOK == open \in BOOLEAN /\ last \in {"none", "up", "down", "lost"} /\ collected \in Nat

MetricOK ==
    /\ up \in {"none", "up", "down"} /\ days \subseteq Int
    /\ checks \in Nat /\ mixed \in BOOLEAN

TypeOK ==
    /\ mode \in {"standalone", "cluster"} /\ type \in Type
    /\ MainOK /\ LeaderOK /\ PoolOK /\ StoreOK /\ MetricOK

\* In standalone mode the one pool starts at once; in a cluster, with a term.
Init ==
    /\ mode \in {"standalone", "cluster"} /\ type \in Type
    /\ main = "serve" /\ signalled = FALSE /\ late = FALSE /\ request = FALSE
    /\ leader = IF mode = "standalone" THEN "leading" ELSE "follower"
    /\ term = IF mode = "standalone" THEN 1 ELSE 0
    /\ cancelled = {} /\ abandoned = {}
    /\ pool = [k \in Term |-> IF k <= term THEN "starting" ELSE "none"]
    /\ queued = [k \in Term |-> 0] /\ task = [k \in Term |-> [w \in Worker |-> Idle]]
    /\ results = [k \in Term |-> <<>>] /\ rounds = term
    /\ open = TRUE /\ last = "none" /\ up = "none" /\ days = {}
    /\ checks = 0 /\ collected = 0 /\ mixed = FALSE

Alive == main # "exited"

\* The context of a term is a child of that of the process.
Cancelled(k) == k \in cancelled \/ signalled

\* The outcomes in the hands of workers, and the pools with one in the channel.
Held    == {p \in Term \X Worker : task[p[1]][p[2]].at \in {"set", "send"}}
Waiting == {k \in Term : results[k] # <<>>}
Settled == Held = {} /\ Waiting = {}

\* Nothing of a pool is under way.
Drained(k) ==
    queued[k] = 0 /\ results[k] = <<>> /\ \A w \in Worker : task[k][w] = Idle

-----------------------------------------------------------------------------
(* leader.Run, and the goroutine around it or around pool.Run              *)

\* SingleLeader.IsLeader, Leader.IsLeader: the flag stays up in a demotion.
IsLeader == mode = "standalone" \/ leader \in {"leading", "demoting"}

\* The election is won: the pool is started on its own goroutine, where it first
\* loads the suppressions.
TermStarts ==
    /\ Alive /\ mode = "cluster" /\ leader = "follower"
    /\ term < MaxTerms /\ rounds < MaxRounds
    /\ leader' = "leading" /\ term' = term + 1
    /\ pool' = [pool EXCEPT ![term + 1] = "starting"]
    /\ rounds' = rounds + 1
    /\ UNCHANGED <<mode, type, mainVars, cancelled, abandoned, queued, task, results, storeVars,
                   metricVars>>

\* The session is lost, or the process told to stop: the pool is cancelled.
LeadEnds(why) ==
    /\ Alive /\ mode = "cluster" /\ leader = "leading"
    /\ why = "signal" => signalled
    /\ leader' = "demoting" /\ cancelled' = cancelled \cup {term}
    /\ UNCHANGED <<mode, type, mainVars, term, abandoned, poolVars, storeVars, metricVars>>

\* Run campaigns again unless the process is to stop.
Resign ==
    /\ Alive /\ leader = "demoting"
    /\ leader' = IF signalled THEN "returned" ELSE "follower"
    /\ UNCHANGED <<mode, type, mainVars, term, cancelled, poolVars, storeVars, metricVars>>

DemoteDone == Resign /\ pool[term] = "ended" /\ UNCHANGED abandoned

\* Five seconds are over.
DemoteTimeout == Resign /\ pool[term] # "ended" /\ abandoned' = abandoned \cup {term}

\* A follower that is told to stop, or the pool of standalone mode that has.
Returns ==
    /\ Alive
    /\ \/ mode = "cluster" /\ leader = "follower" /\ signalled
       \/ mode = "standalone" /\ leader = "leading" /\ pool[term] = "ended"
    /\ leader' = "returned"
    /\ UNCHANGED <<mode, type, mainVars, term, cancelled, abandoned, poolVars, storeVars,
                   metricVars>>

-----------------------------------------------------------------------------
(* The pool of a term: Run, its workers, its collector                     *)

\* Mutant of Offer: a full channel is not looked at.
Offer_Always(k) == queued' = [queued EXCEPT ![k] = @ + 1]

\* A round of jobs: one for the target, unless its last one still waits.
Offer(k) == queued' = [queued EXCEPT ![k] = IF @ = 0 THEN 1 ELSE @]

\* Run is called, be its context cancelled by then or not.
RunStarts(k) ==
    /\ Alive /\ pool[k] = "starting"
    /\ pool' = [pool EXCEPT ![k] = "run"]
    /\ Offer(k)
    /\ UNCHANGED <<mode, type, mainVars, leaderVars, task, results, rounds, storeVars,
                   metricVars>>

\* BOUND: Run comes to see that its context is cancelled before the next tick,
\* which is ten seconds away, but may find a tick waiting along with it.
Tick(k) ==
    /\ Alive /\ pool[k] = "run" /\ ~Cancelled(k)
    /\ rounds < MaxRounds /\ rounds' = rounds + 1
    /\ pool' = [pool EXCEPT ![k] = "tick"]
    /\ UNCHANGED <<mode, type, mainVars, leaderVars, queued, task, results, storeVars,
                   metricVars>>

Round(k) ==
    /\ Alive /\ pool[k] = "tick"
    /\ pool' = [pool EXCEPT ![k] = "run"]
    /\ Offer(k)
    /\ UNCHANGED <<mode, type, mainVars, leaderVars, task, results, rounds, storeVars,
                   metricVars>>

\* ctx.Done(): no more jobs.
Stops(k) ==
    /\ Alive /\ pool[k] \in {"run", "tick"} /\ Cancelled(k)
    /\ pool' = [pool EXCEPT ![k] = "stop"]
    /\ UNCHANGED <<mode, type, mainVars, leaderVars, queued, task, results, rounds, storeVars,
                   metricVars>>

\* Workers, then the collector, are waited for (Pool!StoppedMeansDrained).
RunEnds(k) ==
    /\ Alive /\ pool[k] = "stop" /\ Drained(k)
    /\ pool' = [pool EXCEPT ![k] = "ended"]
    /\ UNCHANGED <<mode, type, mainVars, leaderVars, queued, task, results, rounds, storeVars,
                   metricVars>>

TakesJob(k, w) ==
    /\ Alive /\ task[k][w] = Idle /\ queued[k] > 0
    /\ task' = [task EXCEPT ![k][w] = [at |-> "check"]]
    /\ queued' = [queued EXCEPT ![k] = @ - 1]
    /\ UNCHANGED <<mode, type, mainVars, leaderVars, pool, results, rounds, storeVars,
                   metricVars>>

\* Mutant of Record: the gauge is never put back to 0.
Record_UpOnly(outcome) ==
    /\ checks' = checks + 1
    /\ up' = IF outcome.status = "up" THEN "up" ELSE up

\* metrics.Record; latencies and the errors by type are left out.
Record(outcome) ==
    /\ checks' = checks + 1
    /\ up' = outcome.status

\* The outcome of a check is recorded by the worker itself.  For a certificate
\* the days left are set after that.
Finishes(k, w, outcome) ==
    /\ Alive /\ task[k][w].at = "check"
    /\ Record(outcome)
    /\ mixed' = ~Settled
    /\ task' = [task EXCEPT ![k][w] = [at |-> IF type = "cert" THEN "set" ELSE "send",
                                       outcome |-> outcome]]
    /\ UNCHANGED <<mode, type, mainVars, leaderVars, pool, queued, results, rounds, storeVars,
                   days>>

\* A check ends with an answer of the network, or because the term does: its
\* context is a child of that of the term.
CheckReturns(k, w) ==
    \/ \E a \in Network : Finishes(k, w, Check(type, Warn, a))
    \/ Cancelled(k) /\ Finishes(k, w, Check(type, Warn, CutShort))

SetsDays(k, w) ==
    /\ Alive /\ task[k][w].at = "set"
    /\ days' = {task[k][w].outcome.days}
    /\ task' = [task EXCEPT ![k][w].at = "send"]
    /\ UNCHANGED <<mode, type, mainVars, leaderVars, pool, queued, results, rounds, storeVars,
                   up, checks, mixed>>

\* Mutant of Sends: a worker whose context is cancelled does not wait for a place.
Sends_GivesUp(k, w) ==
    /\ Alive /\ task[k][w].at = "send" /\ (results[k] = <<>> \/ Cancelled(k))
    /\ results' = [results EXCEPT ![k] = IF @ = <<>> THEN <<task[k][w].outcome>> ELSE @]
    /\ task' = [task EXCEPT ![k][w] = Idle]
    /\ UNCHANGED <<mode, type, mainVars, leaderVars, pool, queued, rounds, storeVars, metricVars>>

Sends(k, w) ==
    /\ Alive /\ task[k][w].at = "send" /\ results[k] = <<>>
    /\ results' = [results EXCEPT ![k] = <<task[k][w].outcome>>]
    /\ task' = [task EXCEPT ![k][w] = Idle]
    /\ UNCHANGED <<mode, type, mainVars, leaderVars, pool, queued, rounds, storeVars, metricVars>>

\* The collector saves a result: this may fail at any time, and always does when
\* the database is closed.  (Its evaluation is in Evaluator.tla.)
Collects(k) ==
    /\ Alive /\ results[k] # <<>>
    /\ \/ open /\ last' = Head(results[k]).status
       \/ last' = "lost"
    /\ collected' = collected + 1
    /\ results' = [results EXCEPT ![k] = Tail(@)]
    /\ UNCHANGED <<mode, type, mainVars, leaderVars, pool, queued, task, rounds, open, metricVars>>

-----------------------------------------------------------------------------
(* main and the HTTP server                                                *)

Signal ==
    /\ Alive /\ ~signalled
    /\ signalled' = TRUE
    /\ UNCHANGED <<mode, type, main, late, request, leaderVars, poolVars, storeVars, metricVars>>

\* The server cannot listen: log.Fatalf ends the process, without its deferred
\* calls.  BOUND: this shows before the first check is over.
Fatal ==
    /\ main = "serve" /\ checks = 0
    /\ main' = "exited"
    /\ UNCHANGED <<mode, type, signalled, late, request, leaderVars, poolVars, storeVars,
                   metricVars>>

\* A request for data comes while the server listens; RequireLeader answers with
\* 503 at once, or lets it on to its handler.  BOUND: one at a time.
Admit ==
    /\ main = "serve" /\ ~request
    /\ IsLeader
    /\ request' = TRUE
    /\ UNCHANGED <<mode, type, main, signalled, late, leaderVars, poolVars, storeVars, metricVars>>

\* The handler reads the database and answers.
Handle ==
    /\ Alive /\ request
    /\ request' = FALSE
    /\ UNCHANGED <<mode, type, main, signalled, late, leaderVars, poolVars, storeVars, metricVars>>

Shutdown ==
    /\ main = "serve" /\ signalled
    /\ main' = "shutdown"
    /\ UNCHANGED <<mode, type, signalled, late, request, leaderVars, poolVars, storeVars,
                   metricVars>>

\* Mutant of ShutdownDone: the server is closed without waiting for its requests.
ShutdownDone_NoWait ==
    /\ main = "shutdown"
    /\ main' = "join"
    /\ UNCHANGED <<mode, type, signalled, late, request, leaderVars, poolVars, storeVars,
                   metricVars>>

ShutdownDone ==
    /\ main = "shutdown" /\ ~request
    /\ main' = "join"
    /\ UNCHANGED <<mode, type, signalled, late, request, leaderVars, poolVars, storeVars,
                   metricVars>>

\* Mutant of ShutdownTimeout: Shutdown is given no time limit.
ShutdownTimeout_Never == FALSE

\* Ten seconds are over: the request is left to itself.
ShutdownTimeout ==
    /\ main = "shutdown" /\ request
    /\ main' = "join" /\ late' = TRUE
    /\ UNCHANGED <<mode, type, signalled, request, leaderVars, poolVars, storeVars, metricVars>>

\* Mutant of Join: poolDone is not waited for.
Join_NoWait ==
    /\ main = "join"
    /\ main' = "closed" /\ open' = FALSE
    /\ UNCHANGED <<mode, type, signalled, late, request, leaderVars, poolVars, last, collected,
                   metricVars>>

\* poolDone is closed: main returns, and its deferred calls close the database.
Join ==
    /\ main = "join" /\ leader = "returned"
    /\ main' = "closed" /\ open' = FALSE
    /\ UNCHANGED <<mode, type, signalled, late, request, leaderVars, poolVars, last, collected,
                   metricVars>>

Exit ==
    /\ main = "closed"
    /\ main' = "exited"
    /\ UNCHANGED <<mode, type, signalled, late, request, leaderVars, poolVars, storeVars,
                   metricVars>>

-----------------------------------------------------------------------------
LeaderStep == DemoteDone \/ DemoteTimeout \/ Returns \/ LeadEnds("signal")
RunStep(k) == RunStarts(k) \/ Round(k) \/ Stops(k) \/ RunEnds(k)
WorkerStep(k, w) == TakesJob(k, w) \/ CheckReturns(k, w) \/ SetsDays(k, w) \/ Sends(k, w)
MainStep == Shutdown \/ ShutdownDone \/ ShutdownTimeout \/ Join \/ Exit

Next ==
    \/ TermStarts \/ LeadEnds("session") \/ LeaderStep
    \/ \E k \in Term : \/ RunStep(k) \/ Tick(k) \/ Collects(k)
                       \/ \E w \in Worker : WorkerStep(k, w)
    \/ Signal \/ Fatal \/ Admit \/ Handle \/ MainStep

Spec == Init /\ [][Next]_vars

\* The goroutines of leader.Run, of main and of each pool make progress, and a
\* check ends at its timeout at the latest.  Elections, ticks, signals, requests
\* and the end of a handler, which waits for its client, are left to the
\* environment.
PoolStep(k) == RunStep(k) \/ Collects(k) \/ \E w \in Worker : WorkerStep(k, w)

Fairness == WF_vars(LeaderStep) /\ WF_vars(MainStep) /\ \A k \in Term : WF_vars(PoolStep(k))

FairSpec == Spec /\ Fairness

-----------------------------------------------------------------------------
(* Properties                                                              *)

\* The order of the shutdown (server, scheduler, database) loses nothing: once
\* main has closed the database, no check and no result is under way, except in
\* the pool of a term that leader.Run gave up waiting for.
ClosedMeansDrained == ~open => \A k \in Term : Drained(k) \/ k \in abandoned

\* A request that RequireLeader has let on is answered out of an open database,
\* and with a bounded number of rows, unless it outlasted Shutdown.
ServedWhileOpen ==
    request => \A r \in Queries :
                   LET a == Api!Answer(r, open)
                   IN  a.rows <= 1000 /\ (a.code = 500 => late)

\* Every check that the metrics count comes to the collector once, even of a
\* term that is over: until then it is in flight.
CountersAddUp == checks = collected + Cardinality(Held) + Cardinality(Waiting)

\* When nothing is in flight, the gauge says what the last row says, unless that
\* row could not be written or the last checks overlapped: the gauge is set by the
\* workers, the row is written by the collectors, and nothing orders the two.
GaugeTellsLast == Settled /\ ~mixed /\ last # "lost" => up = last

\* And a certificate with few days left in the gauge is down in the other.
LowDaysMeansDown == Settled /\ ~mixed => \A d \in days : d < Warn => up = "down"

\* A process that is told to stop ends, whatever its requests and checks wait
\* for.
ProcessEnds == signalled ~> main = "exited"

-----------------------------------------------------------------------------
(* The inductive invariant behind the safety properties                    *)

\* Pools are started one per term.  Nothing is under way in one that has not
\* begun or is over, and leader.Run leaves a term only when its pool is over or
\* has been given up.
TermInv ==
    /\ leader \in {"leading", "demoting"} => term # 0
    /\ leader \in {"follower", "demoting"} => mode = "cluster"
    /\ \A k \in Term :
        /\ pool[k] \in {"none", "starting", "ended"} => Drained(k)
        /\ k > term => pool[k] = "none"
        /\ k < term \/ (k = term /\ leader \in {"follower", "returned"})
              => pool[k] = "ended" \/ k \in abandoned
    /\ ~open => leader = "returned"

\* The database is open until main has seen the server down; a request that is
\* still in progress then was left behind.
RequestInv ==
    /\ main \in {"serve", "shutdown", "join"} => open
    /\ request /\ (main = "join" \/ ~open) => late

\* What a check of a certificate finds: too few days are a failure.
Cautious(outcome) == type = "cert" /\ outcome.days < Warn => outcome.status = "down"

\* While checks do not overlap, the outcome in flight is that in the gauge, and
\* its days are set before it is sent.
GaugeInv ==
    /\ type # "cert" => days = {}
    /\ \A k \in Term, w \in Worker :
        task[k][w].at = "set" => type = "cert" /\ Cautious(task[k][w].outcome)
    /\ ~mixed =>
        /\ \A p \in Held : task[p[1]][p[2]].outcome.status = up
        /\ \A k \in Waiting : Head(results[k]).status = up
        /\ Settled /\ last # "lost" => up = last
        /\ (\A p \in Held : task[p[1]][p[2]].at # "set") => \A d \in days : d < Warn => up = "down"

IInv == TypeOK /\ TermInv /\ CountersAddUp /\ RequestInv /\ GaugeInv
=============================================================================
