# A formal model of gowatch

gowatch probes HTTP, TCP and TLS targets, stores what it finds, fires alerts, asks a language
model about them, and elects through etcd the one process that does all this. This directory
holds TLA+ modules for the parts of it that run concurrently or remember something, TLC
configurations that check them on small instances, and proofs for any instance.
`PROJECT.json` lists the runs, the mutants that show that each property can fail, the source
lines behind each definition, and the hazards the properties are aimed at.

    tlc -config Pool.cfg MCPool.tla        # check a run
    tlapm PoolProofs.tla                   # check the proofs of a module

## The system

| Component | Source | State | Operations | Model |
|---|---|---|---|---|
| leader election | `internal/cluster/` | session, leader flag, backoff; etcd's leases and keys | campaign, lead, demote, close, retry | `Leader`, `Leadership` |
| scheduler | `internal/scheduler/pool.go` | targets, checkers, pending reload; per Run: jobs, results, workers, collector | Run, dispatch, check, collect, Reload | `Pool` |
| alert rules | `internal/alert/window.go`, `matchers.go`, `rule.go`, `evaluator.go` | last 50 results of each target | OnResult | `Window`, `Matchers`, `Evaluator` |
| alert suppression | `internal/alert/suppressor.go` | last firing of each rule and target, in memory and in etcd | Allow, AllowAndPersist, LoadFromEtcd | `Suppression` |
| rules and suppression across terms | the two above, `main.go` | both, of every process | elect, demote, restart, OnResult | `Failover` |
| alert delivery | `evaluator.go` (fire), `notifier.go`, `main.go` | goroutines, `emitCh` | post, retry, emit, save | `Delivery` |
| AI analyzer and its client | `internal/aiops/analyzer.go`, `llm.go` | queue, cooldowns, day's count, breaker | Submit, handle, gate, Complete, onFail, onOK, persist | `Analyzer`, `Delivery` |
| configuration reload | `internal/config/` | debounce timer, callbacks, channels | event, load, send, forward | `Reload` |
| process | `cmd/gowatch/main.go` | the context of the process, `poolDone`, the server, the open database | start, signal, shutdown, join, exit | `Process` |
| checkers | `pkg/checker/` | none | Check, ClassifyNetErr | `Checks`, composed in `Process` |
| HTTP API | `internal/api/` | none | RequireLeader, status, history, alerts, diagnoses | `Api`, composed in `Process` |
| metrics | `internal/metrics/metrics.go` | counters and gauges | Record, Set | the counter of checks and two gauges in `Process` |
| storage, history of a diagnosis | `internal/storage/sqlite.go`, `internal/aiops/context.go` | the table of checks | Save, GetByTarget, GetLatestPerTarget, BuildContext | `History` |

How they interact. `Leader.Run` calls `Pool.Run` in a goroutine for every term it wins, after
filling the suppressor from etcd, and cancels its context when the session is lost or the
process stops. The collector of the pool saves each result and calls `Evaluator.OnResult`,
which matches the rules on the window, asks the suppressor, and starts a goroutine per alert.
That goroutine calls the webhook and hands the alert to `emitCh`; a consumer saves it and
submits it to the analyzer. Edits of the configuration file reach the pool through the
watcher's timer, a channel of main and `Pool.Reload`. The workers of the pool set the metrics
themselves. The HTTP API reads the database, behind the leader flag. On a signal main shuts the
server down, waits for the goroutine of `Leader.Run` or `Pool.Run`, and closes the database.

What is hard:

* leases expire at etcd, and the processes notice late, or never while they are queued;
  requests get lost, in particular the revoke of a process that is going down;
* the wait for a pool is capped, so that pools outlive their terms (*zombies*), and the collectors
  of two pools are in `OnResult` at a time, which takes a lock for each of its steps and none for all;
* the pool closes two channels in a definite order, and reuses its targets and its pending
  reload across Runs, but makes its channels anew, of a size fixed at the start;
* results of one target may be checked, and delivered, in the wrong order;
* the memory of alerts is kept in two places, one of them written in the background;
* what is stored is read back in another order, and with a limit, after more has been stored;
* the windows stay with their process and outlive its terms, while the cooldown travels;
* metrics and rows are written by different goroutines, and a check may be cut short, overlap the
  next one, or outlive its term and the database;
* the server and the pool are each waited for with a time limit when the process stops;
* nothing waits for the goroutines of delivery, the consumer and the analyzer on shutdown;
* the timer of the watcher can start a callback while another is still under way.

What makes each component correct: one holder of the seat, and a way out of every state
(election); no send on a closed channel, nothing lost on the way out, reloads that come into
force (scheduler); rules that fire exactly when the results justify it (rules); a cooldown
between two alerts of a key, whoever fires them (suppression); a main chain that the side chain
cannot hold up (delivery); limits that hold across days and outages (analyzer);
a diagnosis that sees the failure it is about (history); the last edit wins (reload); no alert
without its failures and no silence without an alert (rules and suppression across terms); a
database that outlives its users, and metrics that agree with it (process).

## The plan

In the order of importance. Steps 1 to 11 are done.

1. `Leadership` (abstract), `Leader` (implements it), with proofs.
2. `Pool`, with proofs.
3. `Suppression` across processes, with proofs.
4. `Window`, `Matchers` and `Evaluator`, against reference definitions over all results.
5. `Analyzer` and `Delivery`, which composes it with the channels.
6. `Reload`, from the file to the pool.
7. `History`: the table of checks and what `BuildContext` makes of it, with proofs.
8. `Failover`: windows, rules and suppression across terms, processes and restarts; it implements
   `Suppression`, with proofs.
9. `Checks`, `Api` and `Process`, which composes them with the pools, the server, the database and
   the metrics of one process, with proofs.
10. More proofs: `DeliveryProofs` (types, `DailyBudget`, `FailuresSpread`) and `ReloadProofs` (types,
   `NoRollback`).
11. The rest of the safety properties: `EvaluatorProofs` (types, `NoFalseAlarm`, `NoMissedAlarm`),
   the counts and the pages in `HistoryProofs`, requests and gauges in `ProcessProofs`,
   `SkipMeansBacklog` in `PoolProofs`. Every invariant and every action property that a run checks
   is now a theorem.
12. Left: an abstract specification of the pool, and of the way of an alert, that `Pool` and
   `Delivery` implement. A composition of `Leader` itself with `Failover` would have too many states
   for TLC; `Failover` takes the election as the events that `Leader` leaves possible.

## The modules

### Leadership and Leader

`Leadership` is the promise: a seat that is empty or held by one process, taken only when empty,
under a `term` that grows. It has two actions, `Take` and `Yield`.

`Leader` is `leader.go` step by step: `pc` is where `Run` is, and each action is the code between
two calls that block. `Check` is the head of the loop (75), `NewSession` and `SessionFailed` the
session (78), `TxnPut` and `CampaignWon` the two halves of `Campaign` (88), `LeadEnds` the select
with the `cancel` after it (110-117), `DemoteDone` and `DemoteTimeout` the select with the five
seconds (118), `CloseSession` the rest. `running` and `cancelled` are the pools: a pool is named
by the lease of its term, and its context is cancelled by `LeadEnds` or with that of the process
(`Cancel`). etcd is modelled as the code uses it: leases that `Expire` at any time, even under an
attentive owner, whose key goes with them; keys with create revisions; a `Campaign` that writes
its key in a transaction (refused without a lease) and then waits until no older key is left,
without looking at its own. `Close` may or may not reach etcd. A process may `Crash` and start
again. History: `term`, the revision of the last election.

The refinement maps `holder` to the process that believes it leads *and* still has its key. Two
processes may believe so at a time: then all but one have lost their key.

### Pool and Window

`Window` is `Push`, shared with `Evaluator`. `Pool` has the fields of the pool (`targets`,
`reloadCh`), the call of `Run` (`run`, `todo`, `jobs`, `results`), the workers, the collector and
the window. `RunStart` is lines 82-110; `Dispatch` hands out one target of a round, so that
workers run between two; the four cases of the select are `SelectTick`, `SelectReload`,
`SelectDone` and, after it, `JoinWorkers` and `JoinCollector`. A worker goes through `Receive`,
`Lookup` (with its early `continue`), `CheckReturns`, `Send`. `Run` is called again for each term
on the same pool. One Run is followed at a time: `leader.go:121` may start the next one beside one
that it has given up, but channels, wait groups, workers and collector are of each Run alone. The
two share the targets, the pending reload, the store and the window; by then the old one has been
cancelled for five seconds, nothing before its select blocks, and it waits for its workers or its
collector. What shared windows and suppressions come to is in `Failover`, what two pools do to
metrics and database in `Process`; that an old Run, still at its select, takes the reload meant for
the new one is in no model. `Reload` is one action: only main's loop calls it, so that its inner select
finds the channel as the outer one left it, or emptier, and the result is the same. A result is
its stamp, taken when the check ends, from a clock that counts checks. A finished check is
`pending` (history) until it is collected.

### Window, Matchers and Evaluator

`Matchers` are the three functions of `matchers.go`. `Evaluator` is `OnResult` with the
suppressor of one process. The order of the rules in the loop does not matter: each has its own
key, and the window does not change in it; so a result is evaluated in one action, for all rules
at once. That holds as long as one collector evaluates, as in a process on its own; `Failover` has
several. `log` (history) keeps all results, and `Deserved` says on the log what each rule asks
for, in other words than the code: percentages are compared by multiplying, and runs are runs of
the log. A result may be `MaxLag` old when it comes, so that windows out of the order of time
occur. `Covered` excludes what a window of fifty cannot know: a threshold above its capacity, a
span with more results than it holds.

### Suppression

One memory (`lastFired`) per process, one in etcd (`stored`), and the writes under way (`puts`).
A leader starts with `Elect`, reads etcd (`LoadRead`), merges what it found (`LoadApply`) or goes
on without (`LoadFailed`). `Fire` is the part of `OnResult` from `AllowAndPersist` to the alert.
A write lands or is lost (`PutLost`): the caller cancels its context right after starting it. A
process may be a zombie, which still fires, after `Demote`. Writes end within a unit of time
(they have two seconds). History: `disorder` (a leader started beside another, without reading
etcd, or while a write was under way) and `lost`.

### Failover

`Failover` extends `Suppression` with a window for each process and key, and with the three steps
of `OnResult`, each of which has a lock of its own: `OnResultPush` puts the result into the window,
`OnResultMatch` copies the window and matches the rule on the copy (`Hit`, by `Matchers`), and
`OnResultAllow` asks the suppressor, which is `Fire` when it allows the alert. A call between two
steps is in `calls`. `pool` has the Runs of a process that have not returned, each with one collector
and so with one call at most: `PoolStarts` when the suppressions are loaded or could not be,
`TermEnds`, after which the pool is `old` and may be given up, and `PoolEnds`, which waits for
its collector (and is `PoolStopped` for the last of them). Two pools of a process, one of them old,
thus take their steps in any order. main makes the evaluator once, so that a term begins with the
window of the last one (`NewTerm`), and only a new process with an empty one (`NewProcess`). The
other steps are those of `Suppression` (`Elsewhere`). History: `streak` counts failures over all
processes, `downs` those that a process has seen, `tenure` the results since its last election, all
up to the threshold, and a call is `due` when its failure completed what the rule asks for.

Two properties tie the two memories together. `OutageTold`: when the call that is due returns, an
alert has gone out within the cooldown, be it its own or the one that silences it. There is one
exception, which the code has: when the collector of another pool of the process pushes a success
before the call copies the window, the run of failures is hidden from it (`Hide`), and nobody is
told. `AlarmJustified`: an alert has its failures behind it, one right after the other, if its term
is old enough to have seen them all. The premise is needed: before that, the window may hold
failures of an earlier term, while another process saw successes.

### Checks, Api and Process

`Checks` is a function from an answer of the network (an error by the facets that
`ClassifyNetErr` asks about, a status code, the days left of the certificates) to an outcome; a
check whose context is cancelled gets an error of no known kind. `Api` is a function from a request
and whether the database is open to a status code and the number of rows asked for.

`Process` is main from its start to its exit. `leader` is the goroutine around `Leader.Run`
(cluster mode) or `Pool.Run` (standalone mode, where it is `leading` from the start until the pool
ends, and `IsLeader` is constant). The election is coarser than in `Leader`: a term starts, ends
(`LeadEnds`), and is resigned when its pool is over (`DemoteDone`) or after five seconds
(`DemoteTimeout`, which makes it `abandoned`). A pool is what is in flight in its Run: `queued` jobs,
the `task` of each worker, `results` on their way; that the workers and the collector are waited
for is what `Pool` shows. There is one target, so that the channels have room for one. A worker
takes a job, checks, records the metrics (`CheckReturns`, with `Record`), sets the days of a
certificate (`SetsDays`) and sends. The collector saves or fails to. Pools of two terms may be at
work together. main goes from `serve` over `shutdown` (`Server.Shutdown`, ten seconds) and `join`
(`poolDone`) to `closed` and `exited`; a server that cannot listen ends it at once (`Fatal`).
History: `collected`; `mixed`, which says that the last check was recorded while another was in
flight; `late`, that `Shutdown` left a request behind.

### Analyzer and Delivery

`Analyzer` is the state behind the analyzer's lock, and three operations on it. `Delivery`
follows each alert from `stage` to `stage`: its goroutine (`Fire`, `Post`, `Repost`, `Emit`), the
consumer (`Take`, `Save`, `Submit`), the analyzer (`Handle`, which ends with the gate, `History`,
then `Answer` or `Fail`). A first post is retried by the class of its outcome (`Retriable`); the
outcome of the second, and of a save, changes nothing that the code looks at later. `Complete` says
which replies of the model are advice. The process stops (`Cancel`), the analyzer returns (`Stop`),
and `Exit` ends everything, wherever it is. History: `passed`, `failures`.

### History

`rows` is the table of checks, a row's id its place. A collector saves a result (`Save`, or
`SaveFailed`, which it survives) and then evaluates it (`OnResult`), which may put an alert into
the queue of the analyzer. `Diagnose` reads the history of the target and builds the context;
`Refuse` is every way on which `handle` returns before that. `GetByTarget` is the set of the
answers that the query admits: rows of one second come in any order. `BuildContext` is its two
results about statuses, `FlapCount` and `FirstDownAt`; the latter is the loop from the end, as
the number of its rounds. What `diagnosis` keeps of the rows read is their ids, so that the
properties can compare with the order in which they were saved.

### Reload

The file is the number of its last edit and whether it can be loaded. An edit makes an event if
the file is watched; an event (re)starts the timer; the timer starts a callback, which loads the
file as it then is and waits for room in the channel of main. Main calls `Pool.Reload`. History:
`overlap` (two callbacks under way) and `missed` (the last edit came before the watcher).

## The runs

| Run | Bounds | Shows |
|---|---|---|
| `leader` | 2 processes, 2 leases, backoff 1; 54 thousand states | `AtMostOneHolder`, `UncancelledPoolIsCurrent`, `RefinesSeat`, `ShutdownTerminates`, `StaleLeaderStepsDown`, `SeatFilled` |
| `leader_single` | as above | violation, see below |
| `pool` | 2 targets, 2 workers, 3 configurations, 2 Runs, 2 rounds, 1 reload, window of 1; 67 thousand | `NoSendOnClosed`, `StoppedMeansDrained`, `SkipMeansBacklog`, `RunTerminates`, `ReloadApplied` |
| `failover` | 2 processes, 2 pools of each, 1 key, threshold 2, window 2, cooldown 2, 4 results (3 once leaders are in disorder), 3 units of time, symmetry of processes and of pools; 1.1 million | `SpacedAcrossTerms`, `OutageTold`, `AlarmJustified` |
| `suppression_lost` | 2 processes, 2 keys, one without cooldown, 3 units of time | violation |
| `evaluator` | 2 targets, 3 outcomes, window 2, 4 results, 3 units of time, 3 rules; 81 thousand | `NoFalseAlarm`, `NoMissedAlarm` |
| `delivery` | 3 alerts of 2 keys, channels of 1, days of 2 units; 116 thousand | `DailyBudget`, `FailuresSpread`, `MainChainGoesOn`, `QueueDrains` |
| `reload` | 4 edits; 48 thousand | `NoRollback`, `LastEditWins` |
| `history` | 2 targets, 4 rows, a limit of 3, 3 seconds, symmetry of targets; 1.4 million | `SeesItsResult`, `FlapsCounted`, `OrderedHistoryWorks`, `PagesAgree` |
| `history_outage` | as above, 3 rows | violation |
| `process` | both modes, http and cert, 2 workers, 2 terms, 2 rounds; 374 thousand | `ClosedMeansDrained`, `ServedWhileOpen`, `CountersAddUp`, `GaugeTellsLast`, `LowDaysMeansDown`, `ProcessEnds` |
| `process_loss` | 1 worker, 1 round | violation |

Each passing run also checks `TypeOK` (`FailoverTypeOK`).

Why the bounds are enough. With two leases for two processes, each may get one, so that one
leads while the other has not noticed that its lease is gone; or one gets both, and leads beside
its own zombie. More leases than that are left to the proofs, which cover the four safety
properties for any number. Two workers are what it takes for two checks of one
target to overlap, and two Runs for a reload to wait from one to the next. One key of suppression
is enough because keys share nothing; three units of time hold a whole cooldown of two. Four
results fill the windows of two processes, so that each may fire. Two pools of a process at a time
are disorder among leaders (as are two processes at work); three results are enough for them: two
failures, which fill the window, and one more, which outgrows it, comes between them, or is the
success of another collector. No term begins when there are no results to come. The window of
two in `evaluator` is outgrown by its four results. Four rows outgrow a limit of three, which holds
two changes of status. Channels of one are full as soon as two alerts meet. Two rounds of one target
in a process make two checks that overlap, in one pool or in those of two terms; the answers of its
network are a success and a failure for each type of target, the days of a certificate those
around the default of fourteen, and the limits of its requests those around 0 and 1000. Two edits make two callbacks, and the third and
fourth come after them. The bounds are constants of the modules, marked `BOUND`; what stops at a
bound stops there for the lack of leases, rounds or time, and the runs whose system may stop say
so (`CHECK_DEADLOCK FALSE`).

Fairness. In `Leader`, each goroutine goes on (weak fairness of its steps); a session that is
asked for again and again is granted in the end (strong fairness of `NewSession`: the retry loop
is there for that); an unattended lease expires, and a lost session is noticed, both by timeouts
of etcd. Nothing is assumed of pools, crashes, signals, or of requests that fail. In `Pool`, Run,
the workers and the collector go on, a check ends because it has a timeout; ticks, reloads and
the end of a term need not come. In `Delivery`, only the main chain is fair; `QueueDrains` states
the fairness of the analyzer as its premise (the call of the model has a timeout), so that
`MainChainGoesOn` does not depend on it. In `Reload`, every goroutine goes on, and the pool takes
what waits for it, which it does while it leads. In `Process`, the goroutine of `Leader.Run`, main and each pool
go on: five and ten seconds pass, and a check ends at its timeout. Elections, ticks, requests and
the end of a handler, which waits for its client, need not come; `ProcessEnds` holds all the same.
`Suppression`, `Failover` and `Evaluator` claim no liveness.

### What the violations show

* `leader_single`: two pools that nobody has cancelled run at a time. The lease of the first
  leader has run out (or it was elected with a dead one), and it has not noticed. README.md:22 and
  135 of the repository promise a single prober at any time.
* `process_loss`: main closes the database while the pool of the last term still holds outcomes, as
  `Leader.Run` waits five seconds at most and then returns. README.md:26 of the repository promises
  a shutdown that loses no data, and main.go:158 and 256 take `poolDone` for the end of the
  scheduler. `ClosedMeansDrained` says what does hold: only a pool given up in this way is concerned.
* `history_outage`: `GetByTarget` returns the newest result first, and `BuildContext` starts at
  the end of what it is given, taking that for the newest. After an outage that began within the
  history, the prompt names no start of it; when all of the history is down, it names the newest
  result. `OrderedHistoryWorks` shows that the function is right about a history in order, and
  `FlapsCounted` that its count of changes does not suffer.
* `suppression_lost`: a leader fires, the write to etcd dies with the context that `OnResult`
  cancels, and the next leader, alone and with etcd in good health, fires again within the
  cooldown. README.md:136 of the repository says that a handover does not reset it.

## The proofs

They hold for any values of the constants that satisfy the assumptions of the modules
(`LeaderAssumption`, `PoolAssumption`, `WindowAssumption`, `SuppressionAssumption`,
`AnalyzerAssumption`, `DeliveryAssumption`, `ReloadAssumption`, `HistoryAssumption`,
`FailoverAssumption`, `EvaluatorAssumption`, `ProcessAssumption`): any number of processes, leases, terms, workers,
targets, keys, rules, alerts and edits. Of the results, `EvaluatorAssumption` says that they are
`up` or `down` (the two statuses of `pkg/checker/checker.go`): the matcher of the error rate counts
what is not `up`, and its definition in `Deserved` what is `down`. Of the rules, it says what
`Config.Validate` checks, and that a cooldown is not negative (`Allow` takes those for none).

* `LeaderProofs`. `Inv` adds three parts to `TypeOK`. `SessionInv`: a session in hand belongs to
  one process and was granted, its key is written by Campaign only, the flag is up only in a term.
  `KeyInv`: keys have different revisions, none above the last. `TermInv`: a candidate with a key
  is younger than the last term, and a leader with a key is the one of that term. The last is what
  `AtMostOneHolder` (`Exclusion`) follows from, and needs the others to be inductive: the winner
  has the smallest revision, so that whoever else holds a key is younger. `Refinement` maps each
  step to `Take`, `Yield` or a stutter. `NoForgottenPool` is inductive with `TypeOK`.
* `PoolProofs`. `PhaseInv` ties the phase of `Run` to the channels and the goroutines: in
  `joinWorkers`, `jobs` is closed and `results` open; in `joinCollector` all workers have left;
  when idle, all goroutines have. `PendingInv` says where a check that is not collected is: in the
  hands of a worker, or in `results`. `ClosedIsFinal` and `Drained` follow. `RoundInv` counts the
  jobs of the present round in the channel: with the targets still to come they are at most as many
  as all targets. So a channel that is full for a configuration it was made for holds a job of an
  earlier round, which is `SkipMeansBacklog` (`SkipsJustified`).
* `EvaluatorProofs`. `WindowInv` says that a bucket is the end of all results of its target, as long
  as the capacity allows; `PushEnd` is the step. For a run, the end is all that a rule looks at
  (`RunAtEnd`). For a rate, the results that the bucket has dropped are out of the span if the rule
  is `Covered`, so that counting in the bucket is counting everywhere, by a bijection that shifts
  the places (`SameKind`); rounding down does not matter to a whole threshold (`Percents`). Hence
  `MatchesDeserved`: on the bucket a rule matches if and only if all the results deserve it. With
  `MemoryInv`, what the suppressor keeps is the last alert, `NoFalseAlarm` (`AlarmsDeserved`) and
  `NoMissedAlarm` (`AlarmsRaised`) follow.
* `FailoverProofs`, first about `Suppression`. `SpacedAcrossTerms` needs to know that whoever may fire a key remembers its
  last alert (`MemoryInv`); that a leader finds it in etcd when it reads (`StoredInv`); that
  writes under way are of the present, so that none overtakes another (`RecentInv`); and that one
  process is at work (`AloneInv`). `Spacing` follows from the four.
* `FailoverProofs`, then about `Failover`. `FailoverImplements` shows that every step is a step of `Suppression` or a stutter,
  so that `Spacing` carries over. `PoolInv` says that a process evaluates only in a term or with an old
  pool, and `CallInv` that a call belongs to such a pool, one at a time, and that, while it is due and
  has not copied the window, its process has seen the whole run of failures: whatever other collectors
  push meanwhile, it is a failure too, or the call is due no longer. `OutageTold` (`Telling`) needs to know that whatever a memory,
  etcd, or a write under way holds of a key is no younger than its last alert (`MemoryOldInv`), and that a process that has seen so many failures
  finds them at the end of its window (`TailInv`): then the rule matches, and either it fires, or the
  memory that refuses has an alert of the cooldown behind it. `AlarmJustified` (`Justified`) needs that, while leaders come
  one after the other, what a term has evaluated is what all processes have (`StreakInv`).
* `ProcessProofs`. `TermInv` says that nothing is under way in a pool that has not begun or is
  over, that a term other than the current one is over or was given up, and that main closes the
  database after `Run` has returned; `ClosedMeansDrained` (`NothingAfterClose`) follows.
  `CountersAddUp` (`EveryCheckCounted`) is inductive with the types: a step moves an outcome from
  one place to the next. `RequestInv` says that main goes on from `shutdown` only without a request
  or with one that is `late`; `ServedWhileOpen` (`Served`) follows, with the limits of `Api`.
  `GaugeInv` says that, while checks do not overlap, the outcome in flight, in the hands of a worker
  or in a channel, is the one in the gauge, and that days are set before it is sent;
  `GaugeTellsLast` (`GaugeAgrees`) is what is left of it when nothing is in flight, and
  `LowDaysMeansDown` (`LowDaysShown`) needs besides that a check finds too few days a failure.
* `HistoryProofs`. `SeesItsResult` needs to know that an alert, in the hands of a collector or in
  the queue, names a row of its target (`AlertInv`), and that rows once read stay in the table
  (`DiagnosisInv`). `Listing` is what `GetByTarget` guarantees: it leaves out a row only for as
  many that are no older. `OrderInv` says that the table is in the order of its seconds, and
  `ListInv` that a diagnosis lists its rows in the opposite one. `PagesAgree` (`PagesCorrect`)
  needs the first: the row with the highest id has the latest second. Without two rows of one second
  the history is the table turned round (`Opposite`), so that neighbours are neighbours and
  `FlapsCounted` (`ChangesCounted`) is a bijection between changes; and turned round once more, its
  failures at the end are an interval, whose length leads to the first of the outage
  (`OrderedHistoryWorks`, by `OutageFound`).
* `DeliveryProofs`. `BudgetInv` says that `dayCount` covers all that passed on `dayKey`, and that
  nothing passed on a later day; `DailyBudget` (`Budgeted`) is part of it. `FailuresSpread` (`Spread`)
  needs two more: `OneInHand`, as one goroutine handles one alert at a time and the breaker was
  closed when it took it, so that a failure never falls into an opening; and `StreakInv`, which has
  all failures but those of the present streak before the last opening.
* `ReloadProofs`. `OrderInv` says that, while callbacks come one at a time, configurations grow older on
  the way from the file through the callback, main's channel and the pool's to the pool; without it
  the pool could take a configuration older than its own. `NoRollback` (`Forwards`) follows.

Only model-checked: the liveness properties (`ShutdownTerminates`, `StaleLeaderStepsDown`,
`SeatFilled`, `RunTerminates`, `ReloadApplied`, `MainChainGoesOn`, `QueueDrains`, `LastEditWins`,
`ProcessEnds`), as TLAPS does neither fairness nor the `ENABLED` behind it. The proofs show no
refutation either: that the four violated claims fail is what TLC's counterexamples are for.

## What is not modelled

* The network itself: an answer is an input of `Checks`. Latencies, texts and time stamps of outcomes
  are left out.
* Losses and delays that the code accepts, which the models have and the properties except, each
  named in its property and in its hazard: an outage hidden by the success of another collector
  (`OutageTold`); spacing of alerts without etcd, or beside an old pool (`SpacedAcrossTerms`); stale
  failures in the window of a new term (`AlarmJustified`); targets skipped after a reload that adds
  some (`SkipMeansBacklog`), and a first round of the old targets (`ReloadApplied`); configurations
  delivered by overlapping callbacks, or edited before the watcher starts (`NoRollback`,
  `LastEditWins`). The days of a certificate are 0 after a check that failed, and results count in
  the order in which they arrive: no property forbids either.
* That the budget of the analyzer starts anew with each process: `DailyBudget` is about one.
* That a webhook gets an alert twice, or never: the cooldown is charged before, and the code keeps
  nothing of the outcome.
* That a check which is cut short by the end of its term is saved as down: `Process` has such
  outcomes and checks that they are accounted for, but no property forbids them.
* Storage beyond the table of checks: alerts and diagnoses are inserted and listed, and
  `SaveBatch` is called by tests only. Error types are not stored, so that the error buckets of a
  diagnosis are empty, unlike docs/aiops.md:44 says: nothing stored could be compared with them.
* The web page, the flags, the query modes of the command line, and a start-up that fails before any
  goroutine runs. Of the API, the two handlers that read no database.
* Of the metrics, the latencies, the errors by type, the leader gauge, which is set with the flag,
  and the outcomes of the analyzer; logs. Nothing depends on them.
* The latencies of a history and the text of the prompt: nothing depends on them.
* The loss of alerts at the end of the process: `Delivery` has it (`Exit`), and `MainChainGoesOn`
  excepts it.
