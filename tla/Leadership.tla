----------------------------- MODULE Leadership -----------------------------
(***************************************************************************)
(* What the election promises to the rest of gowatch: a seat that at most  *)
(* one node holds at a time, handed over only through an empty seat, under *)
(* a term that grows with every handover (a fencing token).  It is the     *)
(* abstract counterpart of internal/cluster/leader.go; Leader.tla is shown *)
(* to implement it.                                                        *)
(***************************************************************************)
EXTENDS Naturals

CONSTANTS Node,     \* the gowatch processes
          NoNode    \* the empty seat, not a node (LeaderAssumption of Leader)

VARIABLES holder,   \* the node in the seat, or NoNode
          term      \* the term of the last node that took the seat

vars == <<holder, term>>

Init == holder = NoNode /\ term = 0

\* A node takes the empty seat, under a term never used before.
Take(n) ==
    /\ holder = NoNode
    /\ holder' = n
    /\ term' \in Nat
    /\ term' > term

\* The holder leaves the seat, or loses it when its lease runs out.
Yield ==
    /\ holder # NoNode
    /\ holder' = NoNode
    /\ UNCHANGED term

Next == Yield \/ \E n \in Node : Take(n)

Spec == Init /\ [][Next]_vars
=============================================================================
