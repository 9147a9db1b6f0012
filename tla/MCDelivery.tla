---------------------------- MODULE MCDelivery -----------------------------
(***************************************************************************)
(* Delivery for TLC: the first two alerts are of one key.                  *)
(***************************************************************************)
EXTENDS Delivery, TLC

CONSTANTS a, b

Keys == [e \in Event |-> IF e \in {3} THEN b ELSE a]
=============================================================================
