----------------------------- MODULE MCProcess ------------------------------
(***************************************************************************)
(* Process for TLC, with the promise of the README on shutdown that the    *)
(* code does not keep.                                                     *)
(***************************************************************************)
EXTENDS Process

CONSTANTS w1, w2

\* With the default of 14 days: up for every type, and down for http and cert.
Responses ==
    {[err |-> {}, code |-> 200, certs |-> <<14, 90>>],
     [err |-> {}, code |-> 500, certs |-> <<13, 90>>]}

Requests ==
    [path : {"status", "history", "alerts", "diagnoses"}, method : {"GET", "POST"},
     target : BOOLEAN, limit : {-1, 0, 1, 1000, 1001}]

\* README.md:26 promises a shutdown that loses no data: when main has closed the
\* database, no outcome of a check is still on its way to it.
GracefulShutdown == ~open => Settled
=============================================================================
