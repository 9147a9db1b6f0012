---------------------------- MODULE MCEvaluator ----------------------------
(***************************************************************************)
(* Evaluator for TLC: a rule of each type, one with a threshold as large   *)
(* as the window, one without cooldown, one for a single target.           *)
(***************************************************************************)
EXTENDS Evaluator

CONSTANTS a, b

Outcomes == {[status |-> "up",   errorType |-> "none"],
             [status |-> "down", errorType |-> "timeout"],
             [status |-> "down", errorType |-> "refused"]}

Rules == {[name |-> "down", target |-> Any, type |-> "consecutive_status",
           wanted |-> "down", threshold |-> 2, span |-> 0, cooldown |-> 2],
          [name |-> "timeout", target |-> a, type |-> "consecutive_error_type",
           wanted |-> "timeout", threshold |-> 2, span |-> 0, cooldown |-> 0],
          [name |-> "rate", target |-> Any, type |-> "error_rate_window",
           wanted |-> "down", threshold |-> 50, span |-> 1, cooldown |-> 1]}
=============================================================================
