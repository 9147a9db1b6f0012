------------------------------ MODULE Matchers -----------------------------
(***************************************************************************)
(* When a rule matches (Rule.Match and internal/alert/matchers.go), on the *)
(* results the window remembers of a target.  A result is a record         *)
(* [status, errorType, at]; a rule is a record                             *)
(*   [name, target, type, wanted, threshold, span, cooldown]               *)
(* where wanted is the status or the error type of a consecutive rule and  *)
(* span the time window of a rate.  Reasons are left out.                  *)
(***************************************************************************)
EXTENDS Naturals, Sequences, FiniteSets

\* Mutant of ConsecutiveStatus: short histories are enough.
ConsecutiveStatus_Short(rule, recent) ==
    \A i \in DOMAIN recent :
        i > Len(recent) - rule.threshold => recent[i].status = rule.wanted

ConsecutiveStatus(rule, recent) ==
    /\ rule.threshold > 0 /\ Len(recent) >= rule.threshold
    /\ \A i \in Len(recent) - rule.threshold + 1 .. Len(recent) :
           recent[i].status = rule.wanted

ConsecutiveErrorType(rule, recent) ==
    /\ rule.threshold > 0 /\ Len(recent) >= rule.threshold
    /\ \A i \in Len(recent) - rule.threshold + 1 .. Len(recent) :
           recent[i].errorType = rule.wanted

\* Whole percents, rounded down, of the results that are not older than the
\* span; the others need not be the first.
ErrorRateWindow(rule, recent, now) ==
    LET counted == {i \in DOMAIN recent : recent[i].at + rule.span >= now}
        errs    == {i \in counted : recent[i].status # "up"}
    IN  /\ rule.threshold > 0 /\ rule.span > 0
        /\ counted # {}
        /\ (Cardinality(errs) * 100) \div Cardinality(counted) >= rule.threshold

\* Rule.Match; a type it does not know matches nothing.
Match(rule, recent, now) ==
    \/ rule.type = "consecutive_status" /\ ConsecutiveStatus(rule, recent)
    \/ rule.type = "consecutive_error_type" /\ ConsecutiveErrorType(rule, recent)
    \/ rule.type = "error_rate_window" /\ ErrorRateWindow(rule, recent, now)
=============================================================================
