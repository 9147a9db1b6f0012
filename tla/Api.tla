-------------------------------- MODULE Api ---------------------------------
(***************************************************************************)
(* The handlers of the HTTP API (internal/api/handler.go) that read the    *)
(* database, as functions of the request and of whether the database is    *)
(* open: the status code, and the rows asked for (0 when none are).        *)
(***************************************************************************)
EXTENDS Integers

\* target and limit are the parameters of the query; no limit, or one that is
\* not a number, counts as 0.
Request ==
    [path : {"status", "history", "alerts", "diagnoses"}, method : {"GET", "POST"},
     target : BOOLEAN, limit : Int]

Limit(asked, default) == IF asked \in 1 .. 1000 THEN asked ELSE default

Refused(code) == [code |-> code, rows |-> 0]

Read(open, rows) == IF open THEN [code |-> 200, rows |-> rows] ELSE Refused(500)

\* GetLatestPerTarget has no limit but the number of targets.
Status(r, open) == IF r.method # "GET" THEN Refused(405) ELSE Read(open, 0)

History(r, open) ==
    IF r.method # "GET" THEN Refused(405)
    ELSE IF ~r.target THEN Refused(400) ELSE Read(open, Limit(r.limit, 20))

Alerts(r, open) ==
    IF r.method # "GET" THEN Refused(405) ELSE Read(open, Limit(r.limit, 50))

Diagnoses(r, open) ==
    IF r.method # "GET" THEN Refused(405) ELSE Read(open, Limit(r.limit, 20))

Answer(r, open) ==
    CASE r.path = "status"    -> Status(r, open)
      [] r.path = "history"   -> History(r, open)
      [] r.path = "alerts"    -> Alerts(r, open)
      [] r.path = "diagnoses" -> Diagnoses(r, open)
=============================================================================
