------------------------------- MODULE Checks -------------------------------
(***************************************************************************)
(* The checkers of gowatch (pkg/checker): what an answer of the network is *)
(* made into.  Texts, latencies and stamps are left out.                   *)
(***************************************************************************)
EXTENDS Integers, Sequences

\* What ClassifyNetErr asks of an error: whether there is one, and whether it
\* wraps a deadline, is about a name, or was refused (by number or by text).
Facet == {"error", "deadline", "dns", "refused"}

\* An answer: the error, if any; the status code (of HTTP); and the days left of
\* each certificate of the peer, its own first (of TLS).
Answers == [err : SUBSET Facet, code : Nat, certs : Seq(Int)]

\* A check whose context is cancelled: the error is none of the known ones, in
\* particular no deadline.
CutShort == [err |-> {"error"}, code |-> 0, certs |-> <<>>]

ErrorType == {"timeout", "refused", "dns", "non_2xx", "cert_expiring", "other"}

Outcome == [status : {"up", "down"}, errorType : ErrorType \cup {""}, days : Int]

ClassifyNetErr(err) ==
    CASE err = {}            -> ""
      [] "deadline" \in err  -> "timeout"
      [] "dns" \in err       -> "dns"
      [] "refused" \in err   -> "refused"
      [] OTHER               -> "other"

Up(days) == [status |-> "up", errorType |-> "", days |-> days]
Down(errorType, days) == [status |-> "down", errorType |-> errorType, days |-> days]

HTTPCheck(a) ==
    IF a.err # {} THEN Down(ClassifyNetErr(a.err), 0)
    ELSE IF a.code \in 200 .. 299 THEN Up(0) ELSE Down("non_2xx", 0)

TCPCheck(a) == IF a.err # {} THEN Down(ClassifyNetErr(a.err), 0) ELSE Up(0)

\* Mutant of CertCheck: only a certificate that has run out is down.
CertCheck_NoWarning(a, warn) ==
    IF a.err # {} THEN Down(ClassifyNetErr(a.err), 0)
    ELSE IF a.certs = <<>> THEN Down("other", 0)
    ELSE IF Head(a.certs) < 0 THEN Down("cert_expiring", Head(a.certs)) ELSE Up(Head(a.certs))

\* Without a certificate to look at, the days left are 0.
CertCheck(a, warn) ==
    IF a.err # {} THEN Down(ClassifyNetErr(a.err), 0)
    ELSE IF a.certs = <<>> THEN Down("other", 0)
    ELSE IF Head(a.certs) < warn THEN Down("cert_expiring", Head(a.certs)) ELSE Up(Head(a.certs))

\* The days of warning of a target that gives none.
WarnDays(configured) == IF configured = 0 THEN 14 ELSE configured

Check(type, warn, a) ==
    CASE type = "http" -> HTTPCheck(a)
      [] type = "tcp"  -> TCPCheck(a)
      [] type = "cert" -> CertCheck(a, warn)
=============================================================================
