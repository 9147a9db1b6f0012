------------------------------ MODULE Failover ------------------------------
(***************************************************************************)
(* The cooldown of alerts (Suppression.tla) together with the windows on   *)
(* which rules are matched (Window.tla, Matchers.tla), across terms,       *)
(* processes and restarts.  Suppression leaves it to chance whether a rule *)
(* matches; here it does when the window of the process says so.  The      *)
(* window is part of the Evaluator, which main makes once: it outlives the *)
(* terms of its process, and never leaves it.                              *)
(*                                                                         *)
(* OnResult takes a lock to push the result, another to copy the window,   *)
(* and a third to ask the suppressor.  A pool that was given up still has  *)
(* its collector, so that two collectors of a process may be in OnResult   *)
(* at a time, with the steps of one between those of the other.            *)
(*                                                                         *)
(* A key stands for a consecutive_status rule that waits for failures, and *)
(* its target; other rules of the target would see the same window.        *)
(***************************************************************************)
EXTENDS Suppression, Window, Matchers

CONSTANTS Threshold,    \* [Key -> Nat]: failures in a row that the rule asks for
          Pool,         \* names for the Runs of a process that have not returned
          MaxResults,   \* BOUND: results evaluated in a behaviour
          MaxDisorderly \* BOUND: the same, once leaders are in disorder

ASSUME FailoverAssumption ==
    /\ Threshold \in [Key -> Nat \ {0}]
    /\ MaxResults \in Nat /\ MaxDisorderly \in Nat

VARIABLES
    window,     \* Evaluator.window of a process
    pool,       \* the Runs of a process, of its term or given up, and their collectors
    calls,      \* the calls of OnResult under way
    \* history
    tenure,     \* results evaluated in a process since it was last elected
    downs,      \* failures in a row among the results evaluated in a process
    streak,     \* failures in a row among all results
    results     \* results evaluated

failoverVars == <<window, pool, calls, tenure, downs, streak, results>>
allVars == <<vars, failoverVars>>

Result == [status : {"up", "down"}]
Counts == [Key -> Nat]

\* A call has pushed its result, or has found that the rule matches.  It is due
\* (history) when its failure completed what the rule asks for, and no other
\* collector has pushed a success before it copied the window.
Call == [node : Node, pool : Pool, key : Key, step : {"pushed", "hit"}, due : BOOLEAN]

\* BOUND: nothing is told apart above the threshold.
UpTo(k, count) == IF count > Threshold[k] THEN Threshold[k] ELSE count

FailoverTypeOK ==
    /\ TypeOK
    /\ window \in [Node -> [Key -> Seq(Result)]]
    /\ \A n \in Node, k \in Key : Len(window[n][k]) <= WindowCap
    /\ pool \in [Node -> [Pool -> {"none", "term", "old"}]]
    /\ calls \subseteq Call
    /\ tenure \in [Node -> Counts] /\ downs \in [Node -> Counts] /\ streak \in Counts
    /\ results \in 0 .. MaxResults

FailoverInit ==
    /\ Init
    /\ window = [n \in Node |-> [k \in Key |-> <<>>]]
    /\ pool = [n \in Node |-> [c \in Pool |-> "none"]]
    /\ calls = {}
    /\ tenure = [n \in Node |-> [k \in Key |-> 0]]
    /\ downs = [n \in Node |-> [k \in Key |-> 0]]
    /\ streak = [k \in Key |-> 0]
    /\ results = 0

-----------------------------------------------------------------------------
(* Terms and processes                                                     *)

\* BOUND: results are evaluated, and terms begin, until then.
MoreToCome == results < MaxResults /\ (disorder => results < MaxDisorderly)

\* A new term keeps the window of the last one.
NewTerm(n) ==
    /\ MoreToCome /\ Elect(n)
    /\ tenure' = [tenure EXCEPT ![n] = [k \in Key |-> 0]]
    /\ UNCHANGED <<window, pool, calls, downs, streak, results>>

\* The Run of the term starts, with a collector of its own, whether etcd could be
\* read or not.
PoolStarts(n, c) ==
    /\ LoadApply(n) \/ LoadFailed(n)
    /\ pool[n][c] = "none"
    /\ pool' = [pool EXCEPT ![n][c] = "term"]
    /\ UNCHANGED <<window, calls, tenure, downs, streak, results>>

\* The term is over; its Run has not returned yet, and may be given up.
TermEnds(n) ==
    /\ Demote(n)
    /\ pool' = [pool EXCEPT ![n] = [c \in Pool |-> IF @[c] = "term" THEN "old" ELSE @[c]]]
    /\ UNCHANGED <<window, calls, tenure, downs, streak, results>>

Busy(n, c) == \E o \in calls : o.node = n /\ o.pool = c

\* Run waits for its collector, which leaves between two results.
PoolEnds(n, c) ==
    /\ pool[n][c] = "old" /\ ~Busy(n, c)
    /\ pool' = [pool EXCEPT ![n][c] = "none"]
    /\ IF \E d \in Pool \ {c} : pool[n][d] = "old" THEN UNCHANGED vars ELSE PoolStopped(n)
    /\ UNCHANGED <<window, calls, tenure, downs, streak, results>>

\* A new process has an empty window.
NewProcess(n) ==
    /\ Restart(n)
    /\ window' = [window EXCEPT ![n] = [k \in Key |-> <<>>]]
    /\ pool' = [pool EXCEPT ![n] = [c \in Pool |-> "none"]]
    /\ calls' = {o \in calls : o.node # n}
    /\ tenure' = [tenure EXCEPT ![n] = [k \in Key |-> 0]]
    /\ downs' = [downs EXCEPT ![n] = [k \in Key |-> 0]]
    /\ UNCHANGED <<streak, results>>

-----------------------------------------------------------------------------
(* OnResult, in three steps: Push, Snapshot with Match, AllowAndPersist    *)

InARow(k, before, status) == IF status = "down" THEN UpTo(k, before + 1) ELSE 0

\* What a success leaves of the calls of the same process that have yet to look
\* at the window.
Hide(n, k, status) ==
    {IF o.node = n /\ o.key = k /\ o.step = "pushed" /\ status = "up"
     THEN [o EXCEPT !.due = FALSE] ELSE o : o \in calls}

\* The result enters the window, under its lock.
OnResultPush(n, c, k, status) ==
    /\ pool[n][c] # "none" /\ ~Busy(n, c)
    /\ window' = [window EXCEPT ![n][k] = Push(@, [status |-> status])]
    /\ tenure' = [tenure EXCEPT ![n][k] = UpTo(k, @ + 1)]
    /\ downs' = [downs EXCEPT ![n][k] = InARow(k, @, status)]
    /\ streak' = [streak EXCEPT ![k] = InARow(k, @, status)]
    /\ calls' = Hide(n, k, status) \cup
                    {[node |-> n, pool |-> c, key |-> k, step |-> "pushed",
                      due |-> InARow(k, downs[n][k], status) = Threshold[k]]}
    /\ MoreToCome /\ results' = results + 1
    /\ UNCHANGED <<vars, pool>>

\* Mutant of Hit: one failure less is enough.
Hit_OffByOne(k, recent) ==
    ConsecutiveStatus([threshold |-> Threshold[k] - 1, wanted |-> "down"], recent)

Hit(k, recent) ==
    ConsecutiveStatus([threshold |-> Threshold[k], wanted |-> "down"], recent)

\* The rule is matched on a copy of the window as it is now: the call goes on if
\* it matches, and ends if not.
OnResultMatch(o) ==
    /\ o.step = "pushed"
    /\ calls' = (calls \ {o}) \cup
           IF Hit(o.key, window[o.node][o.key]) THEN {[o EXCEPT !.step = "hit"]} ELSE {}
    /\ UNCHANGED <<vars, window, pool, tenure, downs, streak, results>>

\* The suppressor decides, under its lock, and the call ends.
OnResultAllow(o) ==
    /\ o.step = "hit"
    /\ calls' = calls \ {o}
    /\ \/ Fire(o.node, o.key)
       \/ ~Allowed(o.node, o.key) /\ UNCHANGED vars
    /\ UNCHANGED <<window, pool, tenure, downs, streak, results>>

-----------------------------------------------------------------------------
\* The steps of Suppression that no window is part of.
Elsewhere ==
    /\ \/ \E n \in Node : LoadRead(n)
       \/ \E p \in puts : PutLands(p) \/ PutLost(p)
       \/ Tick
    /\ UNCHANGED failoverVars

FailoverNext ==
    \/ \E n \in Node : NewTerm(n) \/ TermEnds(n) \/ NewProcess(n)
    \/ \E n \in Node, c \in Pool : PoolStarts(n, c) \/ PoolEnds(n, c)
    \/ \E n \in Node, c \in Pool, k \in Key, status \in {"up", "down"} :
            OnResultPush(n, c, k, status)
    \/ \E o \in calls : OnResultMatch(o) \/ OnResultAllow(o)
    \/ Elsewhere

FailoverSpec == FailoverInit /\ [][FailoverNext]_allVars

-----------------------------------------------------------------------------
(* Properties                                                              *)

\* An alert of the key has gone out, from some process, and its cooldown lasts.
Told(k) ==
    /\ lastAlert[k] # Never
    /\ now - lastAlert[k] < Cooldown[k] \/ now = lastAlert[k]

\* The call returns: the rule does not match, or the suppressor has decided.
Returns(o) ==
    \/ OnResultMatch(o) /\ ~Hit(o.key, window[o.node][o.key])
    \/ OnResultAllow(o)

\* Nobody is silenced for nothing: when OnResult returns from the failure that
\* made as many in a row, in its process, as the rule asks for, an alert has gone
\* out within the cooldown, from this process or another, whatever became of
\* terms, etcd and other processes; unless the collector of another pool of the
\* process came in between with a success.  (A rule that asks for more than the
\* window holds never matches.)
OutageTold ==
    [][\A o \in calls :
        Returns(o) /\ o.due /\ Threshold[o.key] <= WindowCap => Told(o.key)']_allVars

\* No alert without the failures the rule asks for, one right after the other
\* over all processes: as long as a term is old enough to fill the window as far
\* as the rule looks, and leaders start one after the other.
AlarmJustified ==
    [][\A o \in calls :
        /\ OnResultAllow(o) /\ Allowed(o.node, o.key)
        /\ tenure[o.node][o.key] = Threshold[o.key] /\ ~disorder
        => streak[o.key] = Threshold[o.key]]_allVars
=============================================================================
