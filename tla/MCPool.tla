------------------------------- MODULE MCPool -------------------------------
(***************************************************************************)
(* Pool for TLC.                                                           *)
(***************************************************************************)
EXTENDS Pool

CONSTANTS a, b

\* A configuration grows, shrinks and is reordered.
Configs == {<<a>>, <<a, b>>, <<b>>}
=============================================================================
