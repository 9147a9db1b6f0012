------------------------------ MODULE History ------------------------------
(***************************************************************************)
(* What the language model is told about the past of a target: results are *)
(* saved by the collector (internal/scheduler/pool.go), read back for an   *)
(* alert (internal/storage/sqlite.go) and summed up (BuildContext in       *)
(* internal/aiops/context.go).  The table of checks only grows; its id is  *)
(* the place of a row, its ts the second of the insertion.                 *)
(*                                                                         *)
(* A row is its target, status and ts.  Latencies are left out; so are     *)
(* error types, which Save does not store, so that those of a history are  *)
(* empty.  The way of an alert to the analyzer is Delivery.tla's.          *)
(***************************************************************************)
EXTENDS Naturals, Sequences, FiniteSets

CONSTANTS Target,
          Collector,     \* the collectors of the pools of the process, zombies included
          HistoryLimit,  \* rows read for a diagnosis (history_limit of aiops.yaml)
          QueueCap,      \* alerts that may wait for the analyzer (16 in the code)
          MaxRows,       \* BOUND: rows saved
          MaxTime        \* BOUND: the clock stops there

ASSUME HistoryAssumption ==
    /\ HistoryLimit \in Nat \ {0} /\ QueueCap \in Nat \ {0}
    /\ MaxRows \in Nat /\ MaxTime \in Nat \ {0}

VARIABLES
    now,
    rows,        \* the table of checks
    hand,        \* the result a collector has saved and not yet evaluated
    waiting,     \* the alerts on their way to the analyzer
    diagnosis    \* the last context that was built

vars == <<now, rows, hand, waiting, diagnosis>>

Time    == 1 .. MaxTime
Never   == 0
Status  == {"up", "down"}
Row     == [target : Target, status : Status, ts : Time]
Unsaved == 0        \* instead of the id of a result that could not be saved
Alert   == [target : Target, row : 0 .. MaxRows]
None    == [target |-> "none"]

\* What BuildContext is given and returns, and the alert it is about.
Diagnosis == [alert : Alert, read : Seq(1 .. MaxRows), flapCount : Nat,
              firstDownAt : Time \cup {Never}]

TypeOK ==
    /\ now \in Time
    /\ rows \in Seq(Row) /\ Len(rows) <= MaxRows
    /\ hand \in [Collector -> Alert \cup {None}]
    /\ waiting \subseteq Alert
    /\ diagnosis \in Diagnosis \cup {None}
    /\ diagnosis # None => Len(diagnosis.read) <= HistoryLimit

Init ==
    /\ now = 1
    /\ rows = <<>>
    /\ hand = [c \in Collector |-> None]
    /\ waiting = {}
    /\ diagnosis = None

-----------------------------------------------------------------------------
(* The queries.  A result is a sequence of ids; rows of one second come in *)
(* any order.                                                              *)

Saved(t) == {i \in DOMAIN rows : rows[i].target = t}

Listings(t, limit) ==
    {s \in UNION {[1 .. n -> Saved(t)] : n \in 0 .. limit} :
        \A i, j \in DOMAIN s : s[i] = s[j] => i = j}

Lists(s, i) == \E j \in DOMAIN s : s[j] = i

\* Mutants of GetByTarget: oldest first (so that the limit keeps the oldest),
\* no limit.
GetByTarget_Ascending(t, limit) ==
    {s \in Listings(t, limit) :
        /\ \A i, j \in DOMAIN s : i < j => rows[s[i]].ts <= rows[s[j]].ts
        /\ \A i \in Saved(t) : Lists(s, i) \/ (Len(s) = limit /\ rows[i].ts >= rows[s[limit]].ts)}

GetByTarget_NoLimit(t, limit) ==
    {s \in Listings(t, Len(rows)) :
        /\ \A i, j \in DOMAIN s : i < j => rows[s[i]].ts >= rows[s[j]].ts
        /\ \A i \in Saved(t) : Lists(s, i)}

\* WHERE target=? ORDER BY ts DESC LIMIT ?
GetByTarget(t, limit) ==
    {s \in Listings(t, limit) :
        /\ \A i, j \in DOMAIN s : i < j => rows[s[i]].ts >= rows[s[j]].ts
        /\ \A i \in Saved(t) : Lists(s, i) \/ (Len(s) = limit /\ rows[i].ts <= rows[s[limit]].ts)}

\* Mutant of Latest: the first id of a target.
Latest_First(t) == CHOOSE i \in Saved(t) : \A j \in Saved(t) : i <= j

\* GetLatestPerTarget: the row with the highest id of a target.
Latest(t) == CHOOSE i \in Saved(t) : \A j \in Saved(t) : j <= i

-----------------------------------------------------------------------------
(* BuildContext, which takes its history to be oldest first                *)

\* Mutant of FlapCount: the first status counts as a change.
FlapCount_First(hist) ==
    Cardinality({i \in DOMAIN hist : i = 1 \/ hist[i].status # hist[i - 1].status})

FlapCount(hist) ==
    Cardinality({i \in DOMAIN hist : i > 1 /\ hist[i].status # hist[i - 1].status})

\* Failures at the end of the history, counted from there.
Downs(hist) ==
    Cardinality({i \in DOMAIN hist : \A j \in i .. Len(hist) : hist[j].status = "down"})

\* Mutant of FirstDownAt: the row before the failures is taken for their start.
FirstDownAt_Early(hist) ==
    IF Downs(hist) \in {0, Len(hist)} THEN Never ELSE hist[Len(hist) - Downs(hist)].ts

\* The start of the failures at the end of the history.
FirstDownAt(hist) ==
    IF Downs(hist) = 0 THEN Never ELSE hist[Len(hist) - Downs(hist) + 1].ts

-----------------------------------------------------------------------------
Save(c) ==
    /\ hand[c] = None
    /\ Len(rows) < MaxRows
    /\ \E t \in Target, s \in Status :
        /\ rows' = Append(rows, [target |-> t, status |-> s, ts |-> now])
        /\ hand' = [hand EXCEPT ![c] = [target |-> t, row |-> Len(rows) + 1]]
    /\ UNCHANGED <<now, waiting, diagnosis>>

\* A result that cannot be saved is evaluated all the same.
SaveFailed(c) ==
    /\ hand[c] = None
    /\ \E t \in Target : hand' = [hand EXCEPT ![c] = [target |-> t, row |-> Unsaved]]
    /\ UNCHANGED <<now, rows, waiting, diagnosis>>

\* Some rule fires, or none does; the alert is lost when the queue is full.
OnResult(c) ==
    /\ hand[c] # None
    /\ \/ waiting' = waiting
       \/ Cardinality(waiting) < QueueCap /\ waiting' = waiting \cup {hand[c]}
    /\ hand' = [hand EXCEPT ![c] = None]
    /\ UNCHANGED <<now, rows, diagnosis>>

\* handle, for an alert that passes the gate, whenever its turn comes.
Diagnose(a) ==
    /\ a \in waiting
    /\ \E s \in GetByTarget(a.target, HistoryLimit) :
        LET hist == [i \in DOMAIN s |-> rows[s[i]]]
        IN  diagnosis' = [alert |-> a, read |-> s, flapCount |-> FlapCount(hist),
                          firstDownAt |-> FirstDownAt(hist)]
    /\ waiting' = waiting \ {a}
    /\ UNCHANGED <<now, rows, hand>>

\* The gate refuses the alert, or its history cannot be read.
Refuse(a) ==
    /\ a \in waiting
    /\ waiting' = waiting \ {a}
    /\ UNCHANGED <<now, rows, hand, diagnosis>>

Tick ==
    /\ now < MaxTime
    /\ now' = now + 1
    /\ UNCHANGED <<rows, hand, waiting, diagnosis>>

Next ==
    \/ \E c \in Collector : Save(c) \/ SaveFailed(c) \/ OnResult(c)
    \/ \E a \in waiting : Diagnose(a) \/ Refuse(a)
    \/ Tick

Spec == Init /\ [][Next]_vars

-----------------------------------------------------------------------------
(* Properties                                                              *)

\* The result that raised an alert is in the history that its diagnosis is
\* given, unless it could not be saved, or as many results that are no older
\* than it have taken its place: saving comes before evaluating, and the limit
\* cuts off the oldest rows.
SeesItsResult ==
    diagnosis # None /\ diagnosis.alert.row # Unsaved =>
        \/ Lists(diagnosis.read, diagnosis.alert.row)
        \/ /\ Len(diagnosis.read) = HistoryLimit
           /\ \A j \in DOMAIN diagnosis.read :
                  rows[diagnosis.read[j]].ts >= rows[diagnosis.alert.row].ts

\* The rows of a diagnosis, in the order in which they were saved.
Read == {i \in DOMAIN rows : Lists(diagnosis.read, i)}

\* No two rows of the diagnosis were saved in the same second.
Apart == \A i, j \in Read : rows[i].ts = rows[j].ts => i = j

\* Rows i and j follow each other in the diagnosis.
Follow(i, j) == i < j /\ ~\E k \in Read : i < k /\ k < j

\* The changes of status are counted right, although the history comes in the
\* wrong order, unless rows of one second are mixed up.
FlapsCounted ==
    diagnosis # None /\ Apart =>
        diagnosis.flapCount =
            Cardinality({p \in Read \X Read : /\ Follow(p[1], p[2])
                                              /\ rows[p[1]].status # rows[p[2]].status})

\* The present outage: the rows with nothing but failures from them on.
Outage == {i \in Read : \A j \in Read : j >= i => rows[j].status = "down"}

OutageStart == IF Outage = {} THEN Never
               ELSE rows[CHOOSE i \in Outage : \A j \in Outage : i <= j].ts

\* On the same rows, oldest first, BuildContext finds the start of the outage.
OrderedHistoryWorks ==
    diagnosis # None /\ Apart =>
        LET s == diagnosis.read
        IN  FirstDownAt([i \in DOMAIN s |-> rows[s[Len(s) + 1 - i]]]) = OutageStart

\* The status page (by id) and the history page (by time) show the same moment
\* as that of the last result of a target.
PagesAgree ==
    \A t \in Target : \A s \in GetByTarget(t, 1) :
        s # <<>> => rows[s[1]].ts = rows[Latest(t)].ts

-----------------------------------------------------------------------------
(* The inductive invariant behind these properties                         *)

\* An alert about a result that was saved names a row of its target.
Sound(a) == a.row # Unsaved => a.row \in DOMAIN rows /\ rows[a.row].target = a.target

AlertInv ==
    /\ \A c \in Collector : hand[c] # None => Sound(hand[c])
    /\ \A a \in waiting : Sound(a)

\* What was diagnosed stays in the table.
DiagnosisInv ==
    diagnosis # None =>
        /\ Sound(diagnosis.alert)
        /\ \A j \in DOMAIN diagnosis.read : diagnosis.read[j] \in DOMAIN rows

\* Rows are saved in the order of their seconds.
OrderInv ==
    /\ \A i \in DOMAIN rows : rows[i].ts <= now
    /\ \A i, j \in DOMAIN rows : i <= j => rows[i].ts <= rows[j].ts

\* A diagnosis lists each row once, the newest second first, and its changes were
\* counted in this order.
ListInv ==
    diagnosis # None =>
        LET s == diagnosis.read
        IN  /\ \A i, j \in DOMAIN s : /\ s[i] = s[j] => i = j
                                      /\ i < j => rows[s[i]].ts >= rows[s[j]].ts
            /\ diagnosis.flapCount = FlapCount([i \in DOMAIN s |-> rows[s[i]]])

Inv == TypeOK /\ AlertInv /\ DiagnosisInv /\ OrderInv /\ ListInv /\ SeesItsResult
=============================================================================
