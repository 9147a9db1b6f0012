------------------------------ MODULE MCLeader ------------------------------
(***************************************************************************)
(* Leader for TLC, with the claim that the documents of the repository     *)
(* make about the election and that the code does not keep.                *)
(***************************************************************************)
EXTENDS Leader

CONSTANTS n1, n2

\* README.md:22 says that at any moment a single instance probes.  An instance
\* probes from the election of its term until its pool is told to stop.
SingleActiveProbing ==
    \A m, n \in Node : \A k \in running[m] \ cancelled[m], l \in running[n] \ cancelled[n] :
        m = n /\ k = l
=============================================================================
