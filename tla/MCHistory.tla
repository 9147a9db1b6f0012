----------------------------- MODULE MCHistory -----------------------------
(***************************************************************************)
(* History for TLC, with the claim of comments in the repository that the  *)
(* code does not keep.                                                     *)
(***************************************************************************)
EXTENDS History, TLC

\* Targets and collectors are interchangeable.
Symmetry == Permutations(Target) \cup Permutations(Collector)

\* context.go:16 and 20 say that the history is oldest first, and that the
\* diagnosis names the earliest failure of this outage.
NamesOutageStart == diagnosis # None /\ Apart => diagnosis.firstDownAt = OutageStart
=============================================================================
