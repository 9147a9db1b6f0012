------------------------------- MODULE Window ------------------------------
(***************************************************************************)
(* The last results of a target (internal/alert/window.go): a bucket that  *)
(* keeps the WindowCap most recently pushed, oldest first.  Snapshot copies *)
(* it, which is what reading a value is here.                              *)
(***************************************************************************)
EXTENDS Naturals, Sequences

CONSTANT WindowCap    \* results remembered of a target (50 in the code)

ASSUME WindowAssumption == WindowCap \in Nat \ {0}

\* Mutant of Push: the bucket is not cut to its capacity.
Push_NoTrim(bucket, result) == Append(bucket, result)

\* Window.Push: the oldest result goes when the bucket is full.
Push(bucket, result) ==
    LET longer == Append(bucket, result)
    IN  IF Len(longer) > WindowCap
        THEN SubSeq(longer, Len(longer) - WindowCap + 1, Len(longer)) ELSE longer
=============================================================================
