----------------------------- MODULE Evaluator -----------------------------
(***************************************************************************)
(* Evaluator.OnResult (internal/alert/evaluator.go) in one process: a      *)
(* result is pushed to the window of its target, every rule that applies   *)
(* is matched on the window, and one that matches fires unless suppressed. *)
(* The suppressor is that of a process without etcd; Suppression.tla adds  *)
(* etcd and other processes, Delivery.tla what an alert becomes.           *)
(*                                                                         *)
(* Results come in the order of the collector, which need not be that of   *)
(* their timestamps (Pool.tla).                                            *)
(***************************************************************************)
EXTENDS Window, Matchers

CONSTANTS Target, Rule,
          Outcome,      \* what a check may find: [status, errorType]
          Any,          \* the target "*" of a rule
          MaxLag,       \* a result is at most so old when it is evaluated
          MaxResults,   \* BOUND: results evaluated in a behaviour
          MaxTime       \* BOUND: the clock stops there

\* Config.Validate; it looks neither at the cooldown nor at the capacity of the
\* window.
Validate(rules) ==
    /\ \A r \in rules :
        /\ r.target \in Target \cup {Any}
        /\ r.type \in {"consecutive_status", "consecutive_error_type", "error_rate_window"}
        /\ r.threshold \in Nat \ {0} /\ r.span \in Nat /\ r.cooldown \in Nat
        /\ r.type = "consecutive_status" => r.wanted \in {"up", "down"}
        /\ r.type = "error_rate_window" => r.span > 0 /\ r.threshold <= 100
    /\ \A q, r \in rules : q.name = r.name => q = r

\* A checker reports StatusUp or StatusDown (pkg/checker/checker.go).
ASSUME EvaluatorAssumption ==
    /\ Validate(Rule)
    /\ \A o \in Outcome : o.status \in {"up", "down"}
    /\ MaxLag \in Nat /\ MaxResults \in Nat /\ MaxTime \in Nat \ {0}

VARIABLES
    now,
    window,     \* Window.buckets
    lastFired,  \* Suppressor.lastFired
    \* history
    log,        \* all results of a target
    alerts,     \* the last alert of a rule about a target
    fired       \* the rules fired by the last result, and its target

vars == <<now, window, lastFired, log, alerts, fired>>

Time   == 1 .. MaxTime
Never  == 0
Result == [status : {o.status : o \in Outcome}, errorType : {o.errorType : o \in Outcome},
           at : Time]
Stamps == [Rule \X Target -> Time \cup {Never}]

TypeOK ==
    /\ now \in Time
    /\ window \in [Target -> Seq(Result)]
    /\ \A t \in Target : Len(window[t]) <= WindowCap
    /\ lastFired \in Stamps
    /\ log \in [Target -> Seq(Result)]
    /\ alerts \in Stamps
    /\ fired \subseteq Rule \X Target

Init ==
    /\ now = 1
    /\ window = [t \in Target |-> <<>>]
    /\ lastFired = [k \in Rule \X Target |-> Never]
    /\ log = [t \in Target |-> <<>>]
    /\ alerts = [k \in Rule \X Target |-> Never]
    /\ fired = {}

-----------------------------------------------------------------------------
Applies(r, t) == r.target \in {Any, t}

Evaluated == {p \in Target \X (1 .. MaxResults) : p[2] \in DOMAIN log[p[1]]}

\* Suppressor.Allow
Allowed(r, t) ==
    \/ r.cooldown = 0
    \/ lastFired[<<r, t>>] = Never
    \/ now - lastFired[<<r, t>>] >= r.cooldown

\* The firings Suppressor.Allow leaves behind: those of rules without cooldown
\* are not kept.
\* Mutant of Remember: an alert that is suppressed counts as well.
Remember_Suppressed(hits, allowed) ==
    [k \in Rule \X Target |-> IF k \in hits /\ k[1].cooldown > 0 THEN now ELSE lastFired[k]]

Remember(hits, allowed) ==
    [k \in Rule \X Target |-> IF k \in allowed /\ k[1].cooldown > 0 THEN now ELSE lastFired[k]]

OnResult(t, result) ==
    LET bucket  == Push(window[t], result)
        hits    == {r \in Rule : Applies(r, t) /\ Match(r, bucket, now)} \X {t}
        allowed == {k \in hits : Allowed(k[1], t)}
    IN  /\ window' = [window EXCEPT ![t] = bucket]
        /\ lastFired' = Remember(hits, allowed)
        /\ fired' = allowed
        /\ alerts' = [k \in Rule \X Target |-> IF k \in allowed THEN now ELSE alerts[k]]
        /\ log' = [log EXCEPT ![t] = Append(@, result)]
        /\ UNCHANGED now

Evaluate(t) ==
    /\ Cardinality(Evaluated) < MaxResults
    /\ \E o \in Outcome, lag \in 0 .. MaxLag :
        /\ lag < now
        /\ OnResult(t, [status |-> o.status, errorType |-> o.errorType, at |-> now - lag])

Tick ==
    /\ now < MaxTime
    /\ now' = now + 1
    /\ UNCHANGED <<window, lastFired, log, alerts, fired>>

Next == Tick \/ \E t \in Target : Evaluate(t)

Spec == Init /\ [][Next]_vars

-----------------------------------------------------------------------------
(* Properties: OnResult against all results, not those the window keeps    *)

\* The window still holds all that the rule is about.
Covered(r, all) ==
    IF r.type = "error_rate_window"
    THEN \A i \in DOMAIN all : i + WindowCap <= Len(all) => all[i].at + r.span < now
    ELSE r.threshold <= WindowCap

\* What the rule asks for, in the results of a target.
Deserved(r, all) ==
    LET Last(P(_)) == \E i \in DOMAIN all :
                          /\ Len(all) - i + 1 >= r.threshold
                          /\ \A j \in i .. Len(all) : P(all[j])
        InSpan(P(_)) == Cardinality({i \in DOMAIN all : now - all[i].at <= r.span /\ P(all[i])})
    IN  \/ r.type = "consecutive_status" /\ Last(LAMBDA x : x.status = r.wanted)
        \/ r.type = "consecutive_error_type" /\ Last(LAMBDA x : x.errorType = r.wanted)
        \/ /\ r.type = "error_rate_window"
           /\ InSpan(LAMBDA x : TRUE) > 0
           /\ InSpan(LAMBDA x : x.status = "down") * 100 >= r.threshold * InSpan(LAMBDA x : TRUE)

\* No rule fires that all the results of the target do not justify.
NoFalseAlarm ==
    [][\A t \in Target : log'[t] # log[t] =>
        \A k \in fired' : k[2] = t /\ (Covered(k[1], log'[t]) => Deserved(k[1], log'[t]))]_vars

\* A rule justified by the results of the target fires, unless it has done so
\* less than its cooldown ago, or the window is too small for it.
NoMissedAlarm ==
    [][\A t \in Target, r \in Rule :
        /\ log'[t] # log[t]
        /\ Applies(r, t) /\ Covered(r, log'[t]) /\ Deserved(r, log'[t])
        /\ alerts[<<r, t>>] = Never \/ now - alerts[<<r, t>>] >= r.cooldown
        => <<r, t>> \in fired']_vars

-----------------------------------------------------------------------------
(* The inductive invariant behind these properties                         *)

\* The bucket is the end of the results, as long as its capacity if it can be.
EndOf(bucket, all) ==
    /\ Len(bucket) = IF Len(all) < WindowCap THEN Len(all) ELSE WindowCap
    /\ \A i \in DOMAIN bucket : bucket[i] = all[Len(all) - Len(bucket) + i]

WindowInv == \A t \in Target : EndOf(window[t], log[t])

\* What the suppressor keeps of a rule with a cooldown is its last alert.
MemoryInv == \A k \in Rule \X Target : k[1].cooldown > 0 => lastFired[k] = alerts[k]

Inv == TypeOK /\ WindowInv /\ MemoryInv
=============================================================================
