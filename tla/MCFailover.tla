----------------------------- MODULE MCFailover -----------------------------
(***************************************************************************)
(* Failover for TLC.                                                       *)
(***************************************************************************)
EXTENDS Failover, TLC

CONSTANTS n1, n2, k1, p1, p2

Cooldowns  == [k \in Key |-> 2]
Thresholds == [k \in Key |-> 2]

Symmetry == Permutations({n1, n2}) \cup Permutations({p1, p2})
=============================================================================
