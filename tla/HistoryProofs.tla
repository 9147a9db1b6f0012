--------------------------- MODULE HistoryProofs ---------------------------
(***************************************************************************)
(* History keeps its invariants, for any targets, collectors, limits and   *)
(* bounds: the diagnosis of an alert sees the result that raised it.  Of   *)
(* the order of the table and of a diagnosis follow what BuildContext      *)
(* counts, and that the pages agree.                                       *)
(***************************************************************************)
EXTENDS History, FiniteSetTheorems, FunctionTheorems, TLAPS

USE DEF Unsaved, Never

\* A history has a number of changes, and of its rows a first failure or none.
LEMMA ContextType ==
    ASSUME NEW hist \in Seq(Row)
    PROVE  FlapCount(hist) \in Nat /\ FirstDownAt(hist) \in Time \cup {Never}
  <1>1. FlapCount(hist) \in Nat
    <2> DEFINE changes == {i \in DOMAIN hist : i > 1 /\ hist[i].status # hist[i - 1].status}
    <2>1. DOMAIN hist = 1 .. Len(hist) /\ Len(hist) \in Nat
      OBVIOUS
    <2>2. IsFiniteSet(DOMAIN hist)
      BY <2>1, FS_Interval
    <2>3. IsFiniteSet(changes)
      BY <2>2, FS_Subset
    <2> QED
      BY <2>3, FS_CardinalityType DEF FlapCount
  <1>2. FirstDownAt(hist) \in Time \cup {Never}
    <2> DEFINE downs == {i \in DOMAIN hist : \A j \in i .. Len(hist) : hist[j].status = "down"}
    <2>1. DOMAIN hist = 1 .. Len(hist) /\ Len(hist) \in Nat
      OBVIOUS
    <2>2. IsFiniteSet(1 .. Len(hist)) /\ Cardinality(1 .. Len(hist)) = Len(hist)
      BY <2>1, FS_Interval
    <2>3. downs \in SUBSET (1 .. Len(hist))
      BY <2>1
    <2>4. Cardinality(downs) \in Nat /\ Cardinality(downs) <= Len(hist)
      BY <2>2, <2>3, FS_Subset, FS_CardinalityType
    <2>5. Downs(hist) = Cardinality(downs)
      BY DEF Downs
    <2>6. Downs(hist) \in 0 .. Len(hist)
      BY <2>4, <2>5
    <2> HIDE DEF downs
    <2>7. CASE Downs(hist) = 0
      BY <2>7 DEF FirstDownAt
    <2>8. CASE Downs(hist) # 0
      <3>1. Len(hist) - Downs(hist) + 1 \in DOMAIN hist
        BY <2>1, <2>6, <2>8
      <3>2. hist[Len(hist) - Downs(hist) + 1] \in Row
        BY <3>1
      <3> QED
        BY <2>8, <3>2 DEF FirstDownAt, Row
    <2> QED
      BY <2>7, <2>8
  <1> QED
    BY <1>1, <1>2

\* GetByTarget returns rows of the table, no more than the limit, and leaves
\* out none of the target unless it has as many that are no older.
LEMMA Listing ==
    ASSUME rows \in Seq(Row), NEW t, NEW limit \in Nat, NEW s \in GetByTarget(t, limit)
    PROVE  /\ s \in Seq(DOMAIN rows) /\ Len(s) <= limit
           /\ \A i \in DOMAIN rows : rows[i].target = t =>
                  \/ Lists(s, i)
                  \/ Len(s) = limit /\ \A j \in DOMAIN s : rows[s[j]].ts >= rows[i].ts
  <1>1. PICK n \in 0 .. limit : s \in [1 .. n -> Saved(t)]
    BY DEF GetByTarget, Listings
  <1>2. s \in Seq(DOMAIN rows) /\ Len(s) = n /\ DOMAIN s = 1 .. n
    BY <1>1 DEF Saved
  <1>0. ASSUME NEW k \in DOMAIN rows PROVE rows[k].ts \in Nat
    <2>1. rows[k] \in Row
      OBVIOUS
    <2> QED
      BY <2>1, HistoryAssumption DEF Row, Time
  <1>3. ASSUME NEW i \in DOMAIN rows, rows[i].target = t, ~Lists(s, i), NEW j \in DOMAIN s
        PROVE  rows[s[j]].ts >= rows[i].ts
    <2>1. i \in Saved(t)
      BY <1>3 DEF Saved
    <2>2. Len(s) = limit /\ rows[i].ts <= rows[s[limit]].ts
      BY <1>3, <2>1 DEF GetByTarget
    <2>3. limit \in DOMAIN s /\ j <= limit
      BY <1>2, <2>2
    <2>4. s[j] \in DOMAIN rows /\ s[limit] \in DOMAIN rows /\ i \in DOMAIN rows
      BY <1>2, <1>3, <2>3
    <2>5. rows[i].ts \in Nat /\ rows[s[j]].ts \in Nat /\ rows[s[limit]].ts \in Nat
      BY <2>4, <1>0
    <2>6. j = limit \/ j < limit
      BY <1>2, <2>3
    <2>7. j < limit => rows[s[j]].ts >= rows[s[limit]].ts
      BY <2>3 DEF GetByTarget
    <2> QED
      BY <2>2, <2>5, <2>6, <2>7
  <1>4. ASSUME NEW i \in DOMAIN rows, rows[i].target = t, ~Lists(s, i)
        PROVE  Len(s) = limit
    BY <1>4 DEF GetByTarget, Saved
  <1> QED
    BY <1>1, <1>2, <1>3, <1>4

\* An empty table, no result in hand, no alert.
LEMMA InvInit == Init => Inv
  <1> SUFFICES ASSUME Init PROVE Inv
    OBVIOUS
  <1>1. TypeOK
    BY HistoryAssumption DEF Init, TypeOK, Time, None
  <1>2. AlertInv /\ DiagnosisInv /\ OrderInv /\ ListInv /\ SeesItsResult
    BY DEF Init, AlertInv, DiagnosisInv, OrderInv, ListInv, SeesItsResult
  <1> QED
    BY <1>1, <1>2 DEF Inv

\* The second of a row is a number.
LEMMA SecondsOf == ASSUME rows \in Seq(Row) PROVE \A i \in DOMAIN rows : rows[i].ts \in Nat
  <1> TAKE i \in DOMAIN rows
  <1>1. rows[i] \in Row
    OBVIOUS
  <1> QED
    BY <1>1, HistoryAssumption DEF Row, Time

\* GetByTarget returns a row once, and the newest second first.
LEMMA Sorted ==
    ASSUME NEW t, NEW limit, NEW s \in GetByTarget(t, limit)
    PROVE  \A i, j \in DOMAIN s : /\ s[i] = s[j] => i = j
                                  /\ i < j => rows[s[i]].ts >= rows[s[j]].ts
  BY DEF GetByTarget, Listings

\* Saving appends a row, which the collector remembers.
LEMMA SaveKeeps ==
    ASSUME Inv, NEW c \in Collector, Save(c)
    PROVE  Inv'
  <1>1. PICK t \in Target, s \in Status :
            /\ rows' = Append(rows, [target |-> t, status |-> s, ts |-> now])
            /\ hand' = [hand EXCEPT ![c] = [target |-> t, row |-> Len(rows) + 1]]
    BY DEF Save
  <1>2. UNCHANGED <<now, waiting, diagnosis>> /\ Len(rows) < MaxRows
    BY DEF Save
  <1>3. PICK r \in Row : r = [target |-> t, status |-> s, ts |-> now]
    BY DEF Inv, TypeOK, Row
  <1>4. PICK a \in Alert : a = [target |-> t, row |-> Len(rows) + 1]
    <2>1. Len(rows) \in Nat /\ Len(rows) + 1 <= MaxRows
      BY <1>2, HistoryAssumption DEF Inv, TypeOK
    <2>2. [target |-> t, row |-> Len(rows) + 1] \in Alert
      BY <2>1, HistoryAssumption DEF Alert
    <2> QED
      BY <2>2
  <1>5. /\ rows' \in Seq(Row) /\ Len(rows') = Len(rows) + 1
        /\ DOMAIN rows \subseteq DOMAIN rows' /\ Len(rows) + 1 \in DOMAIN rows'
        /\ \A i \in DOMAIN rows : rows'[i] = rows[i]
        /\ rows'[Len(rows) + 1] = r
    BY <1>1, <1>3 DEF Inv, TypeOK
  <1>6. Sound(a)'
    BY <1>3, <1>4, <1>5 DEF Sound
  <1>7. TypeOK'
    BY <1>1, <1>2, <1>4, <1>5, HistoryAssumption DEF Inv, TypeOK
  <1>8. AlertInv'
    <2>0. ASSUME NEW b \in Alert, Sound(b) PROVE Sound(b)'
      BY <2>0, <1>5 DEF Sound
    <2>1. ASSUME NEW d \in Collector, (hand[d] # None)' PROVE Sound(hand[d])'
      <3>1. CASE d = c
        BY <1>1, <1>4, <1>6, <3>1 DEF Inv, TypeOK, Sound
      <3>2. CASE d # c
        <4>1. hand'[d] = hand[d] /\ hand[d] \in Alert /\ Sound(hand[d])
          BY <1>1, <2>1, <3>2 DEF Inv, TypeOK, AlertInv
        <4> QED
          BY <4>1, <2>0 DEF Sound
      <3> QED
        BY <3>1, <3>2
    <2>2. ASSUME NEW b \in waiting PROVE Sound(b)'
      <3>1. b \in Alert /\ Sound(b)
        BY DEF Inv, TypeOK, AlertInv
      <3> QED
        BY <2>0, <3>1
    <2> QED
      BY <1>2, <2>1, <2>2 DEF AlertInv, Sound
  <1>9. DiagnosisInv' /\ SeesItsResult'
    <2> SUFFICES ASSUME diagnosis # None
                 PROVE  DiagnosisInv' /\ SeesItsResult'
      BY <1>2 DEF DiagnosisInv, SeesItsResult
    <2>1. diagnosis \in Diagnosis /\ diagnosis.alert \in Alert
      BY DEF Inv, TypeOK, Diagnosis
    <2>2. DiagnosisInv'
      BY <1>2, <1>5, <2>1 DEF Inv, DiagnosisInv, Sound
    <2>3. SeesItsResult'
      BY <1>2, <1>5, <2>1 DEF Inv, SeesItsResult, DiagnosisInv, Sound, Lists
    <2> QED
      BY <2>2, <2>3
  <1>10. OrderInv'
    <2>1. \A i \in DOMAIN rows : rows[i].ts \in Nat /\ rows[i].ts <= now /\ i < Len(rows) + 1
      BY SecondsOf DEF Inv, TypeOK, OrderInv
    <2>2. r.ts = now /\ now \in Nat
      BY <1>3, HistoryAssumption DEF Inv, TypeOK, Time
    <2>3. \A i \in DOMAIN rows' : i \in DOMAIN rows \/ i = Len(rows) + 1
      BY <1>1 DEF Inv, TypeOK
    <2>4. ASSUME NEW i \in DOMAIN rows', NEW j \in DOMAIN rows', i <= j
          PROVE  rows'[i].ts <= rows'[j].ts
      <3>1. CASE i \in DOMAIN rows /\ j \in DOMAIN rows
        BY <1>5, <2>4, <3>1 DEF Inv, OrderInv
      <3>2. CASE j = Len(rows) + 1
        BY <1>5, <2>1, <2>2, <2>3, <3>2
      <3>3. CASE i = Len(rows) + 1
        BY <1>5, <2>1, <2>2, <2>3, <2>4, <3>2, <3>3
      <3> QED
        BY <2>3, <3>1, <3>2, <3>3
    <2>5. \A i \in DOMAIN rows' : rows'[i].ts <= now
      BY <1>5, <2>1, <2>2, <2>3
    <2> QED
      BY <1>2, <2>4, <2>5 DEF OrderInv
  <1>11. ListInv'
    <2> SUFFICES ASSUME diagnosis # None PROVE ListInv'
      BY <1>2 DEF ListInv
    <2> DEFINE s0 == diagnosis.read
    <2>1. \A i \in DOMAIN s0 : rows'[s0[i]] = rows[s0[i]]
      BY <1>5 DEF Inv, DiagnosisInv
    <2>2. [i \in DOMAIN s0 |-> rows'[s0[i]]] = [i \in DOMAIN s0 |-> rows[s0[i]]]
      BY <2>1
    <2> QED
      BY <1>2, <2>1, <2>2 DEF Inv, ListInv
  <1> QED
    BY <1>7, <1>8, <1>9, <1>10, <1>11 DEF Inv

\* A sequence over a set is one over a larger set.
LEMMA Wider ==
    ASSUME NEW S, NEW T, S \subseteq T, NEW s \in Seq(S)
    PROVE  s \in Seq(T)
  <1>1. Len(s) \in Nat /\ s \in [1 .. Len(s) -> T]
    OBVIOUS
  <1> QED
    BY <1>1

\* Building a context is where Listing comes in.
LEMMA DiagnoseKeeps ==
    ASSUME Inv, NEW a \in waiting, Diagnose(a)
    PROVE  Inv'
  <1>1. PICK s \in GetByTarget(a.target, HistoryLimit) :
            LET hist == [i \in DOMAIN s |-> rows[s[i]]]
            IN  diagnosis' = [alert |-> a, read |-> s, flapCount |-> FlapCount(hist),
                              firstDownAt |-> FirstDownAt(hist)]
    BY DEF Diagnose
  <1> DEFINE hist == [i \in DOMAIN s |-> rows[s[i]]]
  <1>2. UNCHANGED <<now, rows, hand>> /\ waiting' = waiting \ {a}
    BY DEF Diagnose
  <1>3. a \in Alert /\ Sound(a) /\ rows \in Seq(Row) /\ Len(rows) <= MaxRows
    BY DEF Inv, TypeOK, AlertInv
  <1>4. /\ s \in Seq(DOMAIN rows) /\ Len(s) <= HistoryLimit
        /\ \A i \in DOMAIN rows : rows[i].target = a.target =>
              \/ Lists(s, i)
              \/ Len(s) = HistoryLimit /\ \A j \in DOMAIN s : rows[s[j]].ts >= rows[i].ts
    BY <1>3, Listing, HistoryAssumption
  <1>5. hist \in Seq(Row)
    <2>1. ASSUME NEW i \in DOMAIN s PROVE rows[s[i]] \in Row
      BY <1>3, <1>4
    <2>2. DOMAIN s = 1 .. Len(s) /\ Len(s) \in Nat
      BY <1>4
    <2> QED
      BY <2>1, <2>2
  <1>6. FlapCount(hist) \in Nat /\ FirstDownAt(hist) \in Time \cup {Never}
    BY <1>5, ContextType
  <1>7. diagnosis' = [alert |-> a, read |-> s, flapCount |-> FlapCount(hist),
                      firstDownAt |-> FirstDownAt(hist)]
    BY <1>1
  <1> HIDE DEF hist
  <1>8. s \in Seq(1 .. MaxRows)
    <2>1. DOMAIN rows \subseteq 1 .. MaxRows
      BY <1>3, HistoryAssumption
    <2> QED
      BY <1>4, <2>1, Wider
  <1>9. TypeOK'
    <2>1. diagnosis' \in Diagnosis /\ Len(diagnosis'.read) <= HistoryLimit
      BY <1>3, <1>4, <1>6, <1>7, <1>8 DEF Diagnosis
    <2> QED
      BY <1>2, <2>1 DEF Inv, TypeOK
  <1>10. AlertInv'
    BY <1>2 DEF Inv, AlertInv, Sound
  <1>11. DiagnosisInv'
    BY <1>2, <1>3, <1>4, <1>7 DEF DiagnosisInv, Sound
  <1>12. SeesItsResult'
    BY <1>2, <1>3, <1>4, <1>7 DEF SeesItsResult, Sound, Lists
  <1>13. OrderInv'
    BY <1>2 DEF Inv, OrderInv
  <1>14. ListInv'
    <2>1. /\ diagnosis'.read = s /\ rows' = rows
          /\ diagnosis'.flapCount = FlapCount([i \in DOMAIN s |-> rows[s[i]]])
      BY <1>2, <1>7 DEF hist
    <2>2. \A i, j \in DOMAIN s : /\ s[i] = s[j] => i = j
                                 /\ i < j => rows[s[i]].ts >= rows[s[j]].ts
      BY Sorted
    <2> QED
      BY <2>1, <2>2 DEF ListInv
  <1> QED
    BY <1>9, <1>10, <1>11, <1>12, <1>13, <1>14 DEF Inv

\* Every step keeps the invariant.
LEMMA InvStep == Inv /\ [Next]_vars => Inv'
  <1> SUFFICES ASSUME Inv, [Next]_vars PROVE Inv'
    OBVIOUS
  <1>1. CASE \E c \in Collector : Save(c)
    BY <1>1, SaveKeeps
  <1>2. ASSUME NEW c \in Collector, SaveFailed(c) PROVE Inv'
    <2>1. PICK t \in Target : hand' = [hand EXCEPT ![c] = [target |-> t, row |-> Unsaved]]
      BY <1>2 DEF SaveFailed
    <2>2. UNCHANGED <<now, rows, waiting, diagnosis>>
      BY <1>2 DEF SaveFailed
    <2>3. [target |-> t, row |-> Unsaved] \in Alert
      BY HistoryAssumption DEF Alert
    <2>4. TypeOK'
      BY <2>1, <2>2, <2>3 DEF Inv, TypeOK
    <2>5. AlertInv'
      BY <2>1, <2>2, <2>3 DEF Inv, TypeOK, AlertInv, Sound
    <2>6. DiagnosisInv' /\ SeesItsResult' /\ OrderInv' /\ ListInv'
      BY <2>2 DEF Inv, DiagnosisInv, SeesItsResult, OrderInv, ListInv, Sound, Lists
    <2> QED
      BY <2>4, <2>5, <2>6 DEF Inv
  <1>3. ASSUME NEW c \in Collector, OnResult(c) PROVE Inv'
    <2>1. /\ hand[c] \in Alert /\ Sound(hand[c])
          /\ waiting' \subseteq waiting \cup {hand[c]}
          /\ hand' = [hand EXCEPT ![c] = None]
          /\ UNCHANGED <<now, rows, diagnosis>>
      BY <1>3 DEF OnResult, Inv, TypeOK, AlertInv
    <2>2. TypeOK'
      BY <2>1 DEF Inv, TypeOK
    <2>3. AlertInv'
      BY <2>1 DEF Inv, TypeOK, AlertInv, Sound
    <2>4. DiagnosisInv' /\ SeesItsResult' /\ OrderInv' /\ ListInv'
      BY <2>1 DEF Inv, DiagnosisInv, SeesItsResult, OrderInv, ListInv, Sound, Lists
    <2> QED
      BY <2>2, <2>3, <2>4 DEF Inv
  <1>4. CASE \E a \in waiting : Diagnose(a)
    BY <1>4, DiagnoseKeeps
  <1>7. ASSUME NEW a \in waiting, Refuse(a) PROVE Inv'
    <2>1. waiting' \subseteq waiting /\ UNCHANGED <<now, rows, hand, diagnosis>>
      BY <1>7 DEF Refuse
    <2> QED
      BY <2>1 DEF Inv, TypeOK, AlertInv, DiagnosisInv, OrderInv, ListInv, SeesItsResult, Sound, Lists
  <1>5. CASE Tick
    <2>1. now' \in Time /\ UNCHANGED <<rows, hand, waiting, diagnosis>>
      BY <1>5, HistoryAssumption DEF Tick, Inv, TypeOK, Time
    <2>2. OrderInv'
      <3>1. now' = now + 1 /\ now \in Nat /\ \A i \in DOMAIN rows : rows[i].ts \in Nat
        BY <1>5, SecondsOf, HistoryAssumption DEF Tick, Inv, TypeOK, Time
      <3> QED
        BY <2>1, <3>1 DEF Inv, OrderInv
    <2> QED
      BY <2>1, <2>2 DEF Inv, TypeOK, AlertInv, DiagnosisInv, ListInv, SeesItsResult, Sound, Lists
  <1>6. CASE UNCHANGED vars
    BY <1>6 DEF vars, Inv, TypeOK, AlertInv, DiagnosisInv, OrderInv, ListInv, SeesItsResult, Sound, Lists
  <1> QED
    BY <1>1, <1>2, <1>3, <1>4, <1>5, <1>6, <1>7 DEF Next

\* The inductive invariant holds in every reachable state.
THEOREM InvCorrect == Spec => []Inv
  <1> QED
    BY InvInit, InvStep, PTL DEF Spec

\* The variables keep their types: in particular, no diagnosis is given more
\* than history_limit rows.
THEOREM TypeCorrect == Spec => []TypeOK
  <1>1. Inv => TypeOK
    BY DEF Inv
  <1> QED
    BY <1>1, InvCorrect, PTL

\* The diagnosis of an alert is given the result that raised it, or a full
\* history of results that are no older.
THEOREM Informed == Spec => []SeesItsResult
  <1>1. Inv => SeesItsResult
    BY DEF Inv
  <1> QED
    BY <1>1, InvCorrect, PTL

-----------------------------------------------------------------------------
(* The counts of a diagnosis, and the two pages.  The table is in the      *)
(* order of its seconds (OrderInv), the history of a diagnosis in the      *)
(* opposite one (ListInv): without two rows of one second it is the table, *)
(* turned round.                                                           *)

\* A set of numbers has a least one.
LEMMA LeastElement ==
    ASSUME NEW T \in SUBSET Nat, T # {}
    PROVE  \E x \in T : \A y \in T : x <= y
  <1>1. PICK x \in T : \A y \in T : ~ (<<y, x>> \in OpToRel(<, Nat))
    BY NatLessThanWellFounded, WFMin
  <1>2. \A y \in T : ~ (y < x)
    BY <1>1 DEF OpToRel
  <1>3. \A y \in T : x <= y
    <2> TAKE y \in T
    <2>1. x \in Nat /\ y \in Nat
      OBVIOUS
    <2> QED
      BY <1>2, <2>1
  <1> QED
    BY <1>3

\* Latest returns the last row of a target that has one.
LEMMA LatestIsLast ==
    ASSUME rows \in Seq(Row), NEW t, Saved(t) # {}
    PROVE  Latest(t) \in Saved(t) /\ \A j \in Saved(t) : j <= Latest(t)
  <1> DEFINE T == {Len(rows) - i : i \in Saved(t)}
  <1>1. Saved(t) \subseteq 1 .. Len(rows) /\ Len(rows) \in Nat
    BY DEF Saved
  <1>2. T \in SUBSET Nat /\ T # {}
    BY <1>1
  <1>3. PICK x \in T : \A y \in T : x <= y
    BY <1>2, LeastElement
  <1>4. PICK i \in Saved(t) : x = Len(rows) - i
    BY <1>3
  <1>5. \A j \in Saved(t) : j <= i
    <2> TAKE j \in Saved(t)
    <2>1. Len(rows) - j \in T /\ i \in Nat /\ j \in Nat
      BY <1>1
    <2>2. Len(rows) - i <= Len(rows) - j
      BY <1>3, <1>4, <2>1
    <2> QED
      BY <1>1, <2>1, <2>2
  <1> QED
    BY <1>4, <1>5 DEF Latest

\* The status page and the history page show the same moment: the last row of a
\* target has its latest second, and the only row read has it too.
THEOREM PagesCorrect == Spec => []PagesAgree
  <1>1. ASSUME Inv PROVE PagesAgree
    <2> SUFFICES ASSUME NEW t \in Target, NEW s \in GetByTarget(t, 1), s # <<>>
                 PROVE  rows[s[1]].ts = rows[Latest(t)].ts
      BY DEF PagesAgree
    <2>1. rows \in Seq(Row) /\ s \in Seq(DOMAIN rows) /\ Len(s) <= 1
      BY <1>1, Listing DEF Inv, TypeOK
    <2>2. Len(s) = 1 /\ DOMAIN s = {1} /\ s[1] \in DOMAIN rows
      <3>1. Len(s) \in Nat /\ DOMAIN s = 1 .. Len(s)
        BY <2>1
      <3>2. Len(s) # 0
        BY <2>1
      <3>3. DOMAIN s = 1 .. 1 /\ Len(s) = 1
        BY <2>1, <3>1, <3>2
      <3>4. 1 .. 1 = {1}
        OBVIOUS
      <3> QED
        BY <2>1, <3>3, <3>4
    <2>3. s[1] \in Saved(t)
      BY <2>2 DEF GetByTarget, Listings
    <2>4. Latest(t) \in Saved(t) /\ s[1] <= Latest(t)
      BY <2>1, <2>3, LatestIsLast
    <2>5. rows[s[1]].ts <= rows[Latest(t)].ts
      BY <1>1, <2>2, <2>4 DEF Inv, OrderInv, Saved
    <2>6. rows[s[1]].ts >= rows[Latest(t)].ts
      <3>1. Latest(t) \in DOMAIN rows /\ rows[Latest(t)].target = t
        BY <2>4 DEF Saved
      <3>2. Lists(s, Latest(t)) \/ \A j \in DOMAIN s : rows[s[j]].ts >= rows[Latest(t)].ts
        BY <2>1, <3>1, Listing
      <3>3. Lists(s, Latest(t)) => s[1] = Latest(t)
        BY <2>2 DEF Lists
      <3>4. rows[Latest(t)].ts \in Nat
        BY <2>1, <3>1, SecondsOf
      <3> QED
        BY <2>2, <3>2, <3>3, <3>4
    <2>7. rows[s[1]].ts \in Nat /\ rows[Latest(t)].ts \in Nat
      BY <2>1, <2>2, <2>4, SecondsOf DEF Saved
    <2> QED
      BY <2>5, <2>6, <2>7
  <1> QED
    BY <1>1, InvCorrect, PTL

\* The history of a diagnosis: a sequence of ids, each of a row.
LEMMA Rowed ==
    ASSUME Inv, diagnosis # None
    PROVE  /\ diagnosis.read \in Seq(Nat)
           /\ DOMAIN diagnosis.read = 1 .. Len(diagnosis.read)
           /\ Len(diagnosis.read) \in Nat
           /\ \A j \in DOMAIN diagnosis.read : /\ diagnosis.read[j] \in DOMAIN rows
                                               /\ diagnosis.read[j] \in Read
           /\ Read \subseteq Nat
  <1>1. diagnosis.read \in Seq(1 .. MaxRows) /\ rows \in Seq(Row)
    BY DEF Inv, TypeOK, Diagnosis
  <1>2. /\ diagnosis.read \in Seq(Nat) /\ DOMAIN diagnosis.read = 1 .. Len(diagnosis.read)
        /\ Len(diagnosis.read) \in Nat
    <2>1. 1 .. MaxRows \subseteq Nat
      BY HistoryAssumption
    <2>2. diagnosis.read \in Seq(Nat)
      BY <1>1, <2>1, Wider, Zenon
    <2> QED
      BY <2>2
  <1>3. \A j \in DOMAIN diagnosis.read : diagnosis.read[j] \in DOMAIN rows
    BY DEF Inv, DiagnosisInv
  <1>4. \A j \in DOMAIN diagnosis.read : diagnosis.read[j] \in Read
    BY <1>3 DEF Read, Lists
  <1>5. Read \subseteq Nat
    BY <1>1 DEF Read
  <1> QED
    BY <1>2, <1>3, <1>4, <1>5

\* Without two rows of one second the newest row is listed first.
LEMMA Descending ==
    ASSUME Inv, diagnosis # None, Apart,
           NEW i \in DOMAIN diagnosis.read, NEW j \in DOMAIN diagnosis.read, i < j
    PROVE  diagnosis.read[j] < diagnosis.read[i]
  <1> DEFINE s == diagnosis.read
  <1>1. /\ s[i] \in DOMAIN rows /\ s[j] \in DOMAIN rows /\ s[i] \in Nat /\ s[j] \in Nat
        /\ s[i] \in Read /\ s[j] \in Read /\ i \in Nat /\ j \in Nat
    BY Rowed
  <1>2. rows[s[i]].ts >= rows[s[j]].ts /\ s[i] # s[j]
    BY <1>1 DEF Inv, ListInv
  <1>3. rows[s[i]].ts \in Nat /\ rows[s[j]].ts \in Nat
    BY <1>1, SecondsOf DEF Inv, TypeOK
  <1>4. ASSUME s[i] <= s[j] PROVE FALSE
    <2>1. rows[s[i]].ts <= rows[s[j]].ts
      BY <1>1, <1>4 DEF Inv, OrderInv
    <2>2. rows[s[i]].ts = rows[s[j]].ts
      BY <1>2, <1>3, <2>1
    <2> QED
      BY <1>1, <1>2, <2>2 DEF Apart
  <1> QED
    BY <1>1, <1>4

\* The same, for any two rows of the history.
LEMMA Opposite ==
    ASSUME Inv, diagnosis # None, Apart,
           NEW i \in DOMAIN diagnosis.read, NEW j \in DOMAIN diagnosis.read
    PROVE  /\ diagnosis.read[i] < diagnosis.read[j] <=> j < i
           /\ diagnosis.read[i] <= diagnosis.read[j] <=> j <= i
  <1>1. /\ diagnosis.read[i] \in Nat /\ diagnosis.read[j] \in Nat
        /\ i \in Nat /\ j \in Nat
    BY Rowed
  <1>2. i < j => diagnosis.read[j] < diagnosis.read[i]
    BY Descending
  <1>3. j < i => diagnosis.read[i] < diagnosis.read[j]
    BY Descending
  <1> QED
    BY <1>1, <1>2, <1>3

\* Two sets between which there is a bijection are of one size.
LEMMA SameCount ==
    ASSUME NEW S, NEW T, NEW f \in [S -> T], IsFiniteSet(S),
           \A a, b \in S : f[a] = f[b] => a = b,
           \A y \in T : \E a \in S : f[a] = y
    PROVE  IsFiniteSet(T) /\ Cardinality(T) = Cardinality(S)
  <1>1. f \in Bijection(S, T)
    BY Fun_IsBij
  <1>2. ExistsBijection(S, T)
    BY <1>1 DEF ExistsBijection
  <1> QED
    BY <1>2, FS_Bijection

\* The changes of status are counted right: two rows that follow each other in
\* the history follow each other in the table, the later one first.
THEOREM ChangesCounted == Spec => []FlapsCounted
  <1>1. ASSUME Inv PROVE FlapsCounted
    <2> SUFFICES ASSUME diagnosis # None, Apart
                 PROVE  diagnosis.flapCount =
                            Cardinality({p \in Read \X Read :
                                            /\ Follow(p[1], p[2])
                                            /\ rows[p[1]].status # rows[p[2]].status})
      BY DEF FlapsCounted
    <2> DEFINE s == diagnosis.read
               C == {i \in DOMAIN s : i > 1 /\ rows[s[i]].status # rows[s[i - 1]].status}
               P == {p \in Read \X Read : /\ Follow(p[1], p[2])
                                          /\ rows[p[1]].status # rows[p[2]].status}
               f == [i \in C |-> <<s[i], s[i - 1]>>]
    <2>1. /\ DOMAIN s = 1 .. Len(s) /\ Len(s) \in Nat
          /\ \A j \in DOMAIN s : s[j] \in Nat /\ s[j] \in Read
      BY <1>1, Rowed
    <2>2. \A k \in Read : \E j \in DOMAIN s : s[j] = k
      BY DEF Read, Lists
    <2>3. ASSUME NEW i \in DOMAIN s, NEW j \in DOMAIN s
          PROVE  s[i] < s[j] <=> j < i
      BY <1>1, Opposite
    <2>4. diagnosis.flapCount = Cardinality(C)
      <3> DEFINE hist == [i \in DOMAIN s |-> rows[s[i]]]
      <3>1. diagnosis.flapCount =
                Cardinality({i \in DOMAIN hist : i > 1 /\ hist[i].status # hist[i - 1].status})
        BY <1>1 DEF Inv, ListInv, FlapCount
      <3>2. \A i \in DOMAIN s : i > 1 => i - 1 \in DOMAIN s
        BY <2>1
      <3>3. {i \in DOMAIN hist : i > 1 /\ hist[i].status # hist[i - 1].status} = C
        BY <3>2
      <3> QED
        BY <3>1, <3>3
    <2>5. IsFiniteSet(C)
      <3>1. IsFiniteSet(DOMAIN s)
        BY <2>1, FS_Interval
      <3> QED
        BY <3>1, FS_Subset
    <2>6. \A i \in C : i \in DOMAIN s /\ i - 1 \in DOMAIN s /\ i \in Nat
      BY <2>1
    <2>7. f \in [C -> P]
      <3> SUFFICES ASSUME NEW i \in C PROVE <<s[i], s[i - 1]>> \in P
        OBVIOUS
      <3>1. s[i] < s[i - 1] /\ s[i] \in Read /\ s[i - 1] \in Read
        BY <2>1, <2>3, <2>6
      <3>2. ASSUME NEW k \in Read, s[i] < k, k < s[i - 1] PROVE FALSE
        <4>1. PICK m \in DOMAIN s : s[m] = k
          BY <2>2
        <4>2. m < i /\ i - 1 < m
          BY <2>3, <2>6, <3>2, <4>1
        <4> QED
          BY <2>1, <2>6, <4>2
      <3> QED
        BY <3>1, <3>2 DEF Follow
    <2>8. \A i, j \in C : f[i] = f[j] => i = j
      BY <1>1 DEF Inv, ListInv
    <2>9. ASSUME NEW p \in P PROVE \E i \in C : f[i] = p
      <3>1. /\ p = <<p[1], p[2]>> /\ p[1] \in Read /\ p[2] \in Read /\ Follow(p[1], p[2])
            /\ rows[p[1]].status # rows[p[2]].status
        OBVIOUS
      <3>2. PICK a \in DOMAIN s, b \in DOMAIN s : s[a] = p[1] /\ s[b] = p[2]
        BY <2>2, <3>1
      <3>3. b < a /\ a \in Nat /\ b \in Nat
        BY <2>1, <2>3, <3>1, <3>2 DEF Follow
      <3>4. ASSUME b + 1 # a PROVE FALSE
        <4>1. b + 1 \in DOMAIN s /\ b + 1 < a /\ b < b + 1
          BY <2>1, <3>3, <3>4
        <4>2. s[a] < s[b + 1] /\ s[b + 1] < s[b] /\ s[b + 1] \in Read
          BY <2>1, <2>3, <4>1
        <4> QED
          BY <3>1, <3>2, <4>2 DEF Follow
      <3>5. b = a - 1 /\ a > 1
        BY <2>1, <3>3, <3>4
      <3>6. a \in C /\ f[a] = p
        BY <3>1, <3>2, <3>5
      <3> QED
        BY <3>6
    <2> HIDE DEF s, C, P, f
    <2>10. Cardinality(P) = Cardinality(C)
      BY <2>5, <2>7, <2>8, <2>9, SameCount
    <2> QED
      BY <2>4, <2>10 DEF P
  <1> QED
    BY <1>1, InvCorrect, PTL

\* Turned round, the history finds the start of an outage: the failures at its
\* end are one interval, which begins with the first row of the outage.
THEOREM OutageFound == Spec => []OrderedHistoryWorks
  <1>1. ASSUME Inv PROVE OrderedHistoryWorks
    <2> DEFINE s == diagnosis.read
               n == Len(s)
               r(i) == s[n + 1 - i]
               hist == [i \in DOMAIN s |-> rows[s[Len(s) + 1 - i]]]
               D == {i \in 1 .. n : \A j \in i .. n : rows[r(j)].status = "down"}
    <2> SUFFICES ASSUME diagnosis # None, Apart PROVE FirstDownAt(hist) = OutageStart
      BY DEF OrderedHistoryWorks
    <2>1. /\ DOMAIN s = 1 .. n /\ n \in Nat
          /\ \A j \in DOMAIN s : s[j] \in Nat /\ s[j] \in Read
      BY <1>1, Rowed
    <2>2. \A i \in 1 .. n : n + 1 - i \in DOMAIN s /\ r(i) \in Nat /\ r(i) \in Read
      BY <2>1
    <2>3. \A k \in Read : \E i \in 1 .. n : r(i) = k
      <3> TAKE k \in Read
      <3>1. PICK j \in DOMAIN s : s[j] = k
        BY DEF Read, Lists
      <3>2. n + 1 - j \in 1 .. n /\ n + 1 - (n + 1 - j) = j
        BY <2>1
      <3> QED
        BY <3>1, <3>2
    <2>4. ASSUME NEW i \in 1 .. n, NEW j \in 1 .. n PROVE r(i) <= r(j) <=> i <= j
      <3>1. r(i) <= r(j) <=> n + 1 - j <= n + 1 - i
        BY <1>1, <2>2, Opposite
      <3> QED
        BY <2>1, <3>1
    <2>5. hist = [i \in 1 .. n |-> rows[r(i)]] /\ DOMAIN hist = 1 .. n /\ Len(hist) = n
      BY <2>1
    <2>6. Downs(hist) = Cardinality(D)
      <3>1. ASSUME NEW i \in 1 .. n, NEW j \in i .. n PROVE hist[j] = rows[r(j)]
        <4>1. j \in 1 .. n
          BY <2>1
        <4> HIDE DEF r, hist, n
        <4> QED
          BY <2>5, <4>1
      <3> HIDE DEF r, hist, n
      <3>2. D = {i \in DOMAIN hist : \A j \in i .. Len(hist) : hist[j].status = "down"}
        <4>1. ASSUME NEW i \in 1 .. n
              PROVE  (\A j \in i .. n : rows[r(j)].status = "down")
                       <=> (\A j \in i .. n : hist[j].status = "down")
          BY <3>1
        <4>2. D = {i \in 1 .. n : \A j \in i .. n : hist[j].status = "down"}
          BY <4>1, Zenon
        <4> QED
          BY <2>5, <4>2
      <3> QED
        BY <3>2 DEF Downs
    <2> HIDE DEF s, n, hist, r
    <2>7. Outage = {r(i) : i \in D}
      <3>1. ASSUME NEW i \in D PROVE r(i) \in Outage
        <4>1. ASSUME NEW k \in Read, k >= r(i) PROVE rows[k].status = "down"
          <5>1. PICK j \in 1 .. n : r(j) = k
            BY <2>3
          <5>2. i <= j
            BY <2>2, <2>4, <4>1, <5>1
          <5>3. j \in i .. n
            BY <2>1, <5>2
          <5> QED
            BY <5>1, <5>3
        <4> QED
          BY <2>2, <4>1 DEF Outage
      <3>2. ASSUME NEW k \in Outage PROVE \E i \in D : r(i) = k
        <4>1. PICK i \in 1 .. n : r(i) = k
          BY <2>3 DEF Outage
        <4>2. ASSUME NEW j \in i .. n PROVE rows[r(j)].status = "down"
          <5>1. j \in 1 .. n /\ r(i) <= r(j) /\ r(i) \in Nat /\ r(j) \in Nat /\ r(j) \in Read
            BY <2>1, <2>2, <2>4
          <5> QED
            BY <4>1, <5>1 DEF Outage
        <4> QED
          BY <4>1, <4>2
      <3> QED
        BY <3>1, <3>2
    <2>8. CASE D = {}
      <3>1. Downs(hist) = 0
        BY <2>6, <2>8, FS_EmptySet
      <3>2. Outage = {}
        BY <2>7, <2>8
      <3> QED
        BY <3>1, <3>2 DEF FirstDownAt, OutageStart
    <2>9. CASE D # {}
      <3>1. PICK m \in D : \A i \in D : m <= i
        <4>1. D \in SUBSET Nat
          BY <2>1
        <4> QED
          BY <2>9, <4>1, LeastElement
      <3>2. D = m .. n
        <4>1. \A i \in D : i \in m .. n
          BY <2>1, <3>1
        <4>2. ASSUME NEW i \in m .. n PROVE i \in D
          <5>1. i \in 1 .. n /\ \A j \in i .. n : j \in m .. n
            BY <2>1, <3>1
          <5> QED
            BY <3>1, <5>1
        <4> QED
          BY <4>1, <4>2
      <3>3. m \in 1 .. n
        BY <3>1
      <3>4. Downs(hist) = n - m + 1
        <4>1. m \in Int /\ n \in Int /\ m <= n
          BY <2>1, <3>3
        <4>2. Cardinality(m .. n) = n - m + 1
          BY <4>1, FS_Interval
        <4> QED
          BY <2>6, <3>2, <4>2
      <3>5. n - m + 1 # 0 /\ n - (n - m + 1) + 1 = m
        BY <2>1, <3>3
      <3>6. FirstDownAt(hist) = rows[r(m)].ts
        BY <2>5, <3>3, <3>4, <3>5 DEF FirstDownAt
      <3>7. r(m) \in Outage /\ \A k \in Outage : r(m) <= k
        BY <2>4, <2>7, <3>1, <3>3
      <3>8. ASSUME NEW k \in Outage, \A j \in Outage : k <= j PROVE k = r(m)
        <4>1. k <= r(m) /\ r(m) <= k
          BY <3>7, <3>8
        <4>2. k \in Nat /\ r(m) \in Nat
          BY <1>1, <2>2, <3>3, Rowed DEF Outage
        <4> QED
          BY <4>1, <4>2
      <3>9. (CHOOSE k \in Outage : \A j \in Outage : k <= j) = r(m)
        BY <3>7, <3>8
      <3> QED
        BY <3>6, <3>7, <3>9 DEF OutageStart
    <2> QED
      BY <2>8, <2>9
  <1> QED
    BY <1>1, InvCorrect, PTL
=============================================================================
