--------------------------- MODULE MCSuppression ---------------------------
(***************************************************************************)
(* Suppression for TLC, with the claim of the documents on the cooldown    *)
(* across leaders that the code does not keep.                             *)
(***************************************************************************)
EXTENDS Suppression, TLC

CONSTANTS n1, n2, k1, k2

\* A key that is suppressed, and a key of a rule without cooldown.
Cooldowns == [k \in Key |-> IF k = k1 THEN 2 ELSE 0]

Symmetry == Permutations({n1, n2})

\* README.md:136 says that a new leader takes the suppression over from etcd, so
\* that a handover does not reset the cooldown: here it is orderly, and etcd is
\* reachable.
CooldownSurvivesHandover ==
    [][\A n \in Node, k \in Key :
        Fire(n, k) /\ ~disorder => Spaced(lastAlert[k], k)]_vars
=============================================================================
