--------------------------- MODULE FailoverProofs ---------------------------
(***************************************************************************)
(* Proofs about Suppression and Failover, for any processes, keys,         *)
(* cooldowns, thresholds and capacity of the window.                       *)
(*                                                                         *)
(* The spacing of alerts is not inductive: it needs to know that whoever   *)
(* may fire a key remembers its last alert, and so that etcd, or a write   *)
(* on its way to it, remembers it too.                                     *)
(*                                                                         *)
(* Failover implements Suppression, whose invariants are used for it as    *)
(* they are; what is added is what the windows have to do with the results *)
(* behind them, and with the calls of OnResult under way.                  *)
(***************************************************************************)
EXTENDS Failover, TLAPS

-----------------------------------------------------------------------------
(* Suppression                                                             *)

\* While leaders come one after the other, one process at most is at work.
AloneInv ==
    ~disorder => \A m, n \in Node :
        /\ (zombie[m] \/ role[m] # "follower") /\ (zombie[n] \/ role[n] # "follower") => m = n
        /\ zombie[n] => role[n] = "follower"

\* Alerts are of the past, writes on their way of the present, and nothing is
\* remembered of a key that has not fired.
RecentInv ==
    /\ \A p \in puts : p.at = now /\ lastAlert[p.key] = now
    /\ \A k \in Key : lastAlert[k] <= now
    /\ \A k \in Key : lastAlert[k] = Never =>
        /\ stored[k] = Never
        /\ \A n \in Node : read[n][k] = Never /\ lastFired[n][k] = Never

\* No write is lost: etcd knows the last alert, or is about to.
StoredInv ==
    ~lost => \A k \in Key :
        stored[k] = lastAlert[k] \/ \E p \in puts : p.key = k

\* A process at work knows the last alert of every key that has a cooldown.
MemoryInv ==
    ~disorder /\ ~lost => \A n \in Node, k \in Key :
        /\ role[n] = "read" => read[n][k] = lastAlert[k]
        /\ (zombie[n] \/ role[n] = "serving") /\ Cooldown[k] # 0
               => lastFired[n][k] = lastAlert[k]

Inv == TypeOK /\ AloneInv /\ RecentInv /\ StoredInv /\ MemoryInv

-----------------------------------------------------------------------------
\* The invariant holds before anything has been fired.
LEMMA InvInit == Init => Inv
  <1> SUFFICES ASSUME Init PROVE Inv
    OBVIOUS
  <1>1. TypeOK
    <2>1. now \in Time
      BY SuppressionAssumption DEF Init, Time
    <2>2. Nothing \in Stamps
      BY DEF Nothing, Stamps
    <2> QED
      BY <2>1, <2>2 DEF Init, TypeOK
  <1>2. AloneInv /\ RecentInv /\ StoredInv /\ MemoryInv
    BY DEF Init, AloneInv, RecentInv, StoredInv, MemoryInv, Never, Nothing
  <1> QED
    BY <1>1, <1>2 DEF Inv

\* What etcd gave replaces what memory knew, and has its type.
LEMMA MergeType ==
    ASSUME NEW a \in Stamps, NEW b \in Stamps
    PROVE  Merge(a, b) \in Stamps
  BY DEF Merge, Stamps

\* The variables keep their types, whatever step is taken.
LEMMA TypeStep == TypeOK /\ [Next]_vars => TypeOK'
  <1> USE SuppressionAssumption DEF TypeOK
  <1> SUFFICES ASSUME TypeOK, [Next]_vars PROVE TypeOK'
    OBVIOUS
  <1>1. ASSUME NEW n \in Node, Elect(n) PROVE TypeOK'
    BY <1>1 DEF Elect
  <1>2. ASSUME NEW n \in Node, LoadRead(n) PROVE TypeOK'
    BY <1>2 DEF LoadRead
  <1>3. ASSUME NEW n \in Node, LoadApply(n) PROVE TypeOK'
    <2>1. Merge(lastFired[n], read[n]) \in Stamps
      BY MergeType
    <2>2. Nothing \in Stamps
      BY DEF Nothing, Stamps
    <2> QED
      BY <1>3, <2>1, <2>2 DEF LoadApply
  <1>4. ASSUME NEW n \in Node, LoadFailed(n) PROVE TypeOK'
    BY <1>4 DEF LoadFailed
  <1>5. ASSUME NEW n \in Node, Demote(n) PROVE TypeOK'
    BY <1>5 DEF Demote
  <1>6. ASSUME NEW n \in Node, PoolStopped(n) PROVE TypeOK'
    BY <1>6 DEF PoolStopped
  <1>7. ASSUME NEW n \in Node, Restart(n) PROVE TypeOK'
    <2>1. Nothing \in Stamps
      BY DEF Nothing, Stamps
    <2> QED
      BY <1>7, <2>1 DEF Restart
  <1>8. ASSUME NEW n \in Node, NEW k \in Key, Fire(n, k) PROVE TypeOK'
    <2>1. [node |-> n, key |-> k, at |-> now] \in Put
      BY DEF Put
    <2>2. [lastFired EXCEPT ![n][k] = IF Cooldown[k] = 0 THEN @ ELSE now] \in [Node -> Stamps]
      BY DEF Stamps
    <2>3. [lastAlert EXCEPT ![k] = now] \in Stamps
      BY DEF Stamps
    <2> QED
      BY <1>8, <2>1, <2>2, <2>3 DEF Fire
  <1>9. ASSUME NEW p \in puts, PutLands(p) PROVE TypeOK'
    <2>1. [stored EXCEPT ![p.key] = p.at] \in Stamps
      BY DEF Stamps, Put
    <2> QED
      BY <1>9, <2>1 DEF PutLands
  <1>10. ASSUME NEW p \in puts, PutLost(p) PROVE TypeOK'
    BY <1>10 DEF PutLost
  <1>11. CASE Tick
    BY <1>11 DEF Tick, Time
  <1>12. CASE UNCHANGED vars
    BY <1>12 DEF vars
  <1> QED
    BY <1>1, <1>2, <1>3, <1>4, <1>5, <1>6, <1>7, <1>8, <1>9, <1>10, <1>11, <1>12 DEF Next

\* Leaders stay alone until one starts beside another.
LEMMA AloneStep == TypeOK /\ AloneInv /\ [Next]_vars => AloneInv'
  <1> SUFFICES ASSUME TypeOK, AloneInv, [Next]_vars PROVE AloneInv'
    OBVIOUS
  <1> USE DEF TypeOK, AloneInv
  <1>1. ASSUME NEW n \in Node, Elect(n) PROVE AloneInv'
    BY <1>1 DEF Elect
  <1>2. ASSUME NEW n \in Node, LoadRead(n) \/ LoadApply(n) \/ LoadFailed(n) PROVE AloneInv'
    BY <1>2 DEF LoadRead, LoadApply, LoadFailed
  <1>3. ASSUME NEW n \in Node, Demote(n) \/ PoolStopped(n) \/ Restart(n) PROVE AloneInv'
    BY <1>3 DEF Demote, PoolStopped, Restart
  <1>4. ASSUME NEW n \in Node, NEW k \in Key, Fire(n, k) PROVE AloneInv'
    BY <1>4 DEF Fire
  <1>5. ASSUME NEW p \in puts, PutLands(p) \/ PutLost(p) PROVE AloneInv'
    BY <1>5 DEF PutLands, PutLost
  <1>6. CASE Tick \/ UNCHANGED vars
    BY <1>6 DEF Tick, vars
  <1> QED
    BY <1>1, <1>2, <1>3, <1>4, <1>5, <1>6 DEF Next

\* The clock moves only when no write is on its way.
LEMMA RecentStep == TypeOK /\ RecentInv /\ [Next]_vars => RecentInv'
  <1> SUFFICES ASSUME TypeOK, RecentInv, [Next]_vars PROVE RecentInv'
    OBVIOUS
  <1>0. now # Never
    BY DEF TypeOK, Time, Never
  <1> USE DEF RecentInv
  <1>1. ASSUME NEW n \in Node, Elect(n) \/ LoadFailed(n) \/ Demote(n) \/ PoolStopped(n)
        PROVE  RecentInv'
    BY <1>1 DEF Elect, LoadFailed, Demote, PoolStopped
  <1>2. ASSUME NEW n \in Node, LoadRead(n) PROVE RecentInv'
    BY <1>2 DEF LoadRead, TypeOK, Stamps
  <1>3. ASSUME NEW n \in Node, LoadApply(n) PROVE RecentInv'
    BY <1>3 DEF LoadApply, Merge, Nothing, TypeOK, Stamps
  <1>4. ASSUME NEW n \in Node, Restart(n) PROVE RecentInv'
    BY <1>4 DEF Restart, Nothing, TypeOK, Stamps
  <1>5. ASSUME NEW n \in Node, NEW k \in Key, Fire(n, k) PROVE RecentInv'
    <2>1. \A p \in puts' : p.at = now' /\ lastAlert'[p.key] = now'
      BY <1>5 DEF Fire, TypeOK, Stamps, Put
    <2>2. ASSUME NEW j \in Key, lastAlert'[j] = Never
          PROVE  /\ stored'[j] = Never
                 /\ \A m \in Node : read'[m][j] = Never /\ lastFired'[m][j] = Never
      <3>1. j # k /\ lastAlert[j] = Never
        BY <1>5, <1>0, <2>2 DEF Fire, TypeOK, Stamps
      <3> QED
        BY <1>5, <3>1 DEF Fire, TypeOK, Stamps
    <2>3. \A j \in Key : lastAlert'[j] <= now'
      BY <1>5 DEF Fire, TypeOK, Stamps, Time
    <2> QED
      BY <2>1, <2>2, <2>3
  <1>6. ASSUME NEW p \in puts, PutLands(p) PROVE RecentInv'
    BY <1>6, <1>0 DEF PutLands, TypeOK, Stamps, Put
  <1>7. ASSUME NEW p \in puts, PutLost(p) PROVE RecentInv'
    BY <1>7 DEF PutLost
  <1>8. CASE Tick
    <2>1. \A k \in Key : lastAlert[k] <= now + 1
      BY DEF TypeOK, Stamps, Time, Never
    <2> QED
      BY <1>8, <2>1 DEF Tick
  <1>9. CASE UNCHANGED vars
    BY <1>9 DEF vars
  <1> QED
    BY <1>1, <1>2, <1>3, <1>4, <1>5, <1>6, <1>7, <1>8, <1>9 DEF Next

\* A write that is not lost brings etcd up to date.
LEMMA StoredStep == TypeOK /\ RecentInv /\ StoredInv /\ [Next]_vars => StoredInv'
  <1> SUFFICES ASSUME TypeOK, RecentInv, StoredInv, [Next]_vars PROVE StoredInv'
    OBVIOUS
  <1> USE DEF StoredInv
  <1>1. ASSUME NEW n \in Node, Elect(n) \/ LoadRead(n) \/ LoadApply(n) \/ LoadFailed(n)
        PROVE  StoredInv'
    BY <1>1 DEF Elect, LoadRead, LoadApply, LoadFailed
  <1>2. ASSUME NEW n \in Node, Demote(n) \/ PoolStopped(n) \/ Restart(n) PROVE StoredInv'
    BY <1>2 DEF Demote, PoolStopped, Restart
  <1>3. ASSUME NEW n \in Node, NEW k \in Key, Fire(n, k) PROVE StoredInv'
    <2> SUFFICES ASSUME ~lost, NEW j \in Key
                 PROVE  stored[j] = lastAlert'[j] \/ \E q \in puts' : q.key = j
      BY <1>3 DEF Fire
    <2>1. CASE j = k
      <3>1. [node |-> n, key |-> k, at |-> now] \in puts'
        BY <1>3 DEF Fire
      <3> QED
        BY <2>1, <3>1
    <2>2. CASE j # k
      <3>1. lastAlert'[j] = lastAlert[j] /\ puts \subseteq puts'
        BY <1>3, <2>2 DEF Fire, TypeOK, Stamps
      <3> QED
        BY <3>1
    <2> QED
      BY <2>1, <2>2
  <1>4. ASSUME NEW p \in puts, PutLands(p) PROVE StoredInv'
    <2> SUFFICES ASSUME ~lost, NEW k \in Key
                 PROVE  stored'[k] = lastAlert[k] \/ \E q \in puts' : q.key = k
      BY <1>4 DEF PutLands
    <2>1. CASE k = p.key
      BY <1>4, <2>1 DEF PutLands, RecentInv, TypeOK, Stamps, Put
    <2>2. CASE k # p.key
      BY <1>4, <2>2 DEF PutLands, TypeOK, Stamps, Put
    <2> QED
      BY <2>1, <2>2
  <1>5. ASSUME NEW p \in puts, PutLost(p) PROVE StoredInv'
    BY <1>5 DEF PutLost
  <1>6. CASE Tick \/ UNCHANGED vars
    BY <1>6 DEF Tick, vars
  <1> QED
    BY <1>1, <1>2, <1>3, <1>4, <1>5, <1>6 DEF Next

\* What a process reads when it starts is the last alert, and stays so: it is
\* alone, and only a process at work fires.
LEMMA MemoryStep == Inv /\ [Next]_vars => MemoryInv'
  <1> SUFFICES ASSUME Inv, [Next]_vars PROVE MemoryInv'
    OBVIOUS
  <1> USE DEF Inv, TypeOK, MemoryInv
  <1>1. ASSUME NEW n \in Node, Elect(n) PROVE MemoryInv'
    BY <1>1 DEF Elect
  <1>2. ASSUME NEW n \in Node, LoadRead(n) PROVE MemoryInv'
    <2> SUFFICES ASSUME ~disorder', ~lost' PROVE MemoryInv'
      OBVIOUS
    <2>1. ~disorder /\ ~lost /\ puts = {}
      BY <1>2 DEF LoadRead
    <2>2. \A k \in Key : stored[k] = lastAlert[k]
      BY <2>1 DEF StoredInv
    <2>3. ~zombie[n]
      BY <1>2, <2>1 DEF LoadRead, AloneInv
    <2> QED
      BY <1>2, <2>1, <2>2, <2>3 DEF LoadRead, Stamps
  <1>3. ASSUME NEW n \in Node, LoadApply(n) PROVE MemoryInv'
    <2> SUFFICES ASSUME ~disorder, ~lost, NEW m \in Node, NEW k \in Key
                 PROVE  /\ role'[m] = "read" => read'[m][k] = lastAlert[k]
                        /\ (zombie[m] \/ role'[m] = "serving") /\ Cooldown[k] # 0
                               => lastFired'[m][k] = lastAlert[k]
      BY <1>3 DEF LoadApply
    <2>1. CASE m # n
      BY <1>3, <2>1 DEF LoadApply
    <2>2. CASE m = n
      <3>1. read[n][k] = lastAlert[k]
        BY <1>3 DEF LoadApply
      <3>2. lastFired'[n][k] = IF read[n][k] # Never THEN read[n][k] ELSE lastFired[n][k]
        BY <1>3 DEF LoadApply, Merge
      <3>3. lastAlert[k] = Never => lastFired[n][k] = Never
        BY DEF RecentInv
      <3> QED
        BY <1>3, <2>2, <3>1, <3>2, <3>3 DEF LoadApply
    <2> QED
      BY <2>1, <2>2
  <1>4. ASSUME NEW n \in Node, LoadFailed(n) PROVE MemoryInv'
    BY <1>4 DEF LoadFailed
  <1>5. ASSUME NEW n \in Node, Demote(n) \/ PoolStopped(n) PROVE MemoryInv'
    BY <1>5 DEF Demote, PoolStopped
  <1>6. ASSUME NEW n \in Node, Restart(n) PROVE MemoryInv'
    BY <1>6 DEF Restart
  <1>7. ASSUME NEW n \in Node, NEW k \in Key, Fire(n, k) PROVE MemoryInv'
    <2> SUFFICES ASSUME ~disorder, ~lost, NEW m \in Node, NEW j \in Key
                 PROVE  /\ role[m] = "read" => read[m][j] = lastAlert'[j]
                        /\ (zombie[m] \/ role[m] = "serving") /\ Cooldown[j] # 0
                               => lastFired'[m][j] = lastAlert'[j]
      BY <1>7 DEF Fire
    <2>1. zombie[n] \/ role[n] = "serving"
      BY <1>7 DEF Fire
    <2>2. CASE m # n
      BY <2>1, <2>2 DEF AloneInv
    <2>3. CASE m = n
      <3>1. role[n] # "read"
        BY <2>1 DEF AloneInv
      <3>2. CASE j = k
        BY <1>7, <2>3, <3>1, <3>2 DEF Fire, Stamps
      <3>3. CASE j # k
        BY <1>7, <2>3, <3>1, <3>3 DEF Fire, Stamps
      <3> QED
        BY <3>2, <3>3
    <2> QED
      BY <2>2, <2>3
  <1>8. ASSUME NEW p \in puts, PutLands(p) \/ PutLost(p) PROVE MemoryInv'
    BY <1>8 DEF PutLands, PutLost
  <1>9. CASE Tick \/ UNCHANGED vars
    BY <1>9 DEF Tick, vars
  <1> QED
    BY <1>1, <1>2, <1>3, <1>4, <1>5, <1>6, <1>7, <1>8, <1>9 DEF Next

\* The inductive invariant holds in every reachable state.
THEOREM InvCorrect == Spec => []Inv
  <1>1. Inv /\ [Next]_vars => Inv'
    BY TypeStep, AloneStep, RecentStep, StoredStep, MemoryStep DEF Inv
  <1> QED
    BY InvInit, <1>1, PTL DEF Spec

\* In particular the variables have their types: no memory, in etcd or in a
\* process, holds a firing of the future.
THEOREM TypeCorrect == Spec => []TypeOK
  <1>1. Inv => TypeOK
    BY DEF Inv
  <1> QED
    BY InvCorrect, <1>1, PTL

\* Whoever fires a key does so a cooldown after its last alert, fired by whom
\* ever, when no write is lost and leaders start one after the other.
THEOREM Spacing == Spec => SpacedAcrossTerms
  <1>1. ASSUME Inv, [Next]_vars, NEW n \in Node, NEW k \in Key,
               Fire(n, k), ~disorder, ~lost
        PROVE  Spaced(lastAlert[k], k)
    <2>1. CASE Cooldown[k] = 0
      <3>1. lastAlert[k] # Never => now - lastAlert[k] >= 0
        BY <1>1 DEF Inv, RecentInv, TypeOK, Stamps, Time, Never
      <3> QED
        BY <2>1, <3>1 DEF Spaced
    <2>2. CASE Cooldown[k] # 0
      <3>1. lastFired[n][k] = lastAlert[k]
        BY <1>1, <2>2 DEF Inv, MemoryInv, Fire
      <3> QED
        BY <1>1, <2>2, <3>1 DEF Fire, Allowed, Spaced
    <2> QED
      BY <2>1, <2>2
  <1>2. Inv /\ [Next]_vars =>
            [\A n \in Node, k \in Key :
                Fire(n, k) /\ ~disorder /\ ~lost => Spaced(lastAlert[k], k)]_vars
    BY <1>1
  <1> QED
    BY InvCorrect, <1>2, PTL DEF Spec, SpacedAcrossTerms

-----------------------------------------------------------------------------
(* Failover                                                                *)

Last(w, i) == w[Len(w) - i + 1]
AllDown(w, j) == j <= Len(w) /\ \A i \in 1 .. j : Last(w, i).status = "down"

\* No memory of a firing is younger than the last alert.
MemoryOldInv ==
    \A k \in Key :
        /\ stored[k] <= lastAlert[k]
        /\ \A n \in Node : lastFired[n][k] <= lastAlert[k] /\ read[n][k] <= lastAlert[k]

\* The failures in a row that a process has seen are at the end of its window.
TailInv ==
    \A n \in Node, k \in Key :
        /\ downs[n][k] <= Threshold[k]
        /\ Threshold[k] <= WindowCap => AllDown(window[n][k], downs[n][k])

\* The results of the present term of a process at work were the last of all.
StreakInv ==
    /\ \A k \in Key : streak[k] <= Threshold[k]
    /\ \A n \in Node, k \in Key :
        /\ tenure[n][k] <= Threshold[k]
        /\ ~disorder /\ (zombie[n] \/ role[n] # "follower") =>
            \A j \in 1 .. tenure[n][k] : AllDown(window[n][k], j) => streak[k] >= j

\* A process with a collector is at work.  As long as leaders come one after the
\* other it has one; a collector is in one call at a time.
PoolInv ==
    /\ \A n \in Node, c \in Pool : /\ pool[n][c] = "term" => role[n] = "serving"
                                   /\ pool[n][c] = "old" => zombie[n]
    /\ ~disorder => \A n \in Node, c, d \in Pool :
            pool[n][c] # "none" /\ pool[n][d] # "none" => c = d
    /\ \A o \in calls : pool[o.node][o.pool] # "none"
    /\ \A o, p \in calls : o.node = p.node /\ o.pool = p.pool => o = p

\* A due call finds its failures where it left them; a rule that has matched in a
\* term that is old enough has them behind it, until it is decided.
CallInv ==
    \A o \in calls :
        /\ o.step = "pushed" /\ o.due => downs[o.node][o.key] = Threshold[o.key]
        /\ o.step = "hit" /\ ~disorder /\ tenure[o.node][o.key] = Threshold[o.key]
               => streak[o.key] = Threshold[o.key]

FailoverInv ==
    FailoverTypeOK /\ MemoryOldInv /\ TailInv /\ StreakInv /\ PoolInv /\ CallInv

\* The steps that neither begin a term or a process nor bring a result.
Quiet ==
    \/ \E n \in Node : TermEnds(n)
    \/ \E n \in Node, c \in Pool : PoolStarts(n, c) \/ PoolEnds(n, c)
    \/ \E o \in calls : OnResultMatch(o) \/ OnResultAllow(o)
    \/ Elsewhere
    \/ UNCHANGED allVars

-----------------------------------------------------------------------------
\* What Push leaves: a bucket within its capacity, that ends with the new result, and
\* before it the last ones of the old bucket.
LEMMA PushFacts ==
    ASSUME NEW b \in Seq(Result), Len(b) <= WindowCap, NEW r \in Result
    PROVE  /\ Push(b, r) \in Seq(Result)
           /\ Len(Push(b, r)) = IF Len(b) = WindowCap THEN WindowCap ELSE Len(b) + 1
           /\ Last(Push(b, r), 1) = r
           /\ \A i \in 2 .. Len(Push(b, r)) : Last(Push(b, r), i) = Last(b, i - 1)
  <1> DEFINE c == Append(b, r)
  <1>1. WindowCap \in Nat \ {0}
    BY WindowAssumption
  <1>2. /\ c \in Seq(Result) /\ Len(c) = Len(b) + 1 /\ Len(b) \in Nat
        /\ c[Len(b) + 1] = r /\ \A i \in 1 .. Len(b) : c[i] = b[i]
    OBVIOUS
  <1> HIDE DEF c
  <1>3. CASE Len(b) = WindowCap
    <2>1. Push(b, r) = SubSeq(c, 2, Len(c))
      BY <1>1, <1>2, <1>3 DEF Push, c
    <2>2. /\ SubSeq(c, 2, Len(c)) \in Seq(Result)
          /\ Len(SubSeq(c, 2, Len(c))) = Len(c) - 1
          /\ \A i \in 1 .. Len(c) - 1 : SubSeq(c, 2, Len(c))[i] = c[i + 1]
      BY <1>1, <1>2, <1>3
    <2>3. Len(Push(b, r)) = WindowCap
      BY <1>2, <1>3, <2>1, <2>2
    <2>4. \A i \in 1 .. WindowCap : Push(b, r)[i] = c[i + 1]
      BY <1>2, <1>3, <2>1, <2>2
    <2> QED
      BY <1>1, <1>2, <1>3, <2>1, <2>2, <2>3, <2>4 DEF Last
  <1>4. CASE Len(b) # WindowCap
    <2>1. Push(b, r) = c
      BY <1>1, <1>2, <1>4 DEF Push, c
    <2> QED
      BY <1>1, <1>2, <1>4, <2>1 DEF Last
  <1> QED
    BY <1>3, <1>4

\* A run of failures at the end of a bucket that has been pushed to began one
\* result earlier in the old bucket.
LEMMA PushDown ==
    ASSUME NEW b \in Seq(Result), Len(b) <= WindowCap, NEW r \in Result, NEW j \in Nat \ {0}
    PROVE  AllDown(Push(b, r), j) <=>
               j <= WindowCap /\ r.status = "down" /\ AllDown(b, j - 1)
  <1> DEFINE p == Push(b, r)
  <1>1. /\ p \in Seq(Result)
        /\ Len(p) = IF Len(b) = WindowCap THEN WindowCap ELSE Len(b) + 1
        /\ Last(p, 1) = r
        /\ \A i \in 2 .. Len(p) : Last(p, i) = Last(b, i - 1)
    BY PushFacts
  <1>2. WindowCap \in Nat \ {0} /\ Len(b) \in Nat
    BY WindowAssumption
  <1> HIDE DEF p
  <1>3. ASSUME AllDown(p, j)
        PROVE  j <= WindowCap /\ r.status = "down" /\ AllDown(b, j - 1)
    <2>1. j <= Len(p) /\ \A i \in 1 .. j : Last(p, i).status = "down"
      BY <1>3 DEF AllDown
    <2>2. j <= WindowCap /\ j - 1 <= Len(b)
      BY <1>1, <1>2, <2>1
    <2>3. Last(p, 1).status = "down"
      BY <2>1
    <2>4. ASSUME NEW i \in 1 .. j - 1 PROVE Last(b, i).status = "down"
      <3>1. i + 1 \in 2 .. Len(p) /\ i + 1 \in 1 .. j /\ (i + 1) - 1 = i
        BY <1>1, <1>2, <2>1
      <3> QED
        BY <1>1, <2>1, <3>1
    <2> QED
      BY <1>1, <2>2, <2>3, <2>4 DEF AllDown
  <1>4. ASSUME j <= WindowCap, r.status = "down", AllDown(b, j - 1)
        PROVE  AllDown(p, j)
    <2>1. j - 1 <= Len(b) /\ \A i \in 1 .. j - 1 : Last(b, i).status = "down"
      BY <1>4 DEF AllDown
    <2>2. j <= Len(p)
      BY <1>1, <1>2, <1>4, <2>1
    <2>3. ASSUME NEW i \in 1 .. j PROVE Last(p, i).status = "down"
      <3>1. CASE i = 1
        BY <1>1, <1>4, <3>1
      <3>2. CASE i # 1
        <4>1. i \in 2 .. Len(p) /\ i - 1 \in 1 .. j - 1
          BY <2>2, <3>2, <1>1, <1>2
        <4> QED
          BY <1>1, <2>1, <4>1
      <3> QED
        BY <3>1, <3>2
    <2> QED
      BY <2>2, <2>3 DEF AllDown
  <1> QED
    BY <1>3, <1>4 DEF p

\* The rule matches when the bucket ends with as many failures as it asks for.
LEMMA HitIsAllDown ==
    ASSUME NEW k \in Key, NEW w \in Seq(Result)
    PROVE  Hit(k, w) <=> AllDown(w, Threshold[k])
  <1>1. Threshold[k] \in Nat \ {0} /\ Len(w) \in Nat
    BY FailoverAssumption
  <1>2. Hit(k, w) <=> /\ Len(w) >= Threshold[k]
                      /\ \A i \in Len(w) - Threshold[k] + 1 .. Len(w) : w[i].status = "down"
    BY <1>1 DEF Hit, ConsecutiveStatus
  <1>3. ASSUME Len(w) >= Threshold[k],
               \A i \in Len(w) - Threshold[k] + 1 .. Len(w) : w[i].status = "down"
        PROVE  AllDown(w, Threshold[k])
    <2>1. \A i \in 1 .. Threshold[k] :
              Len(w) - i + 1 \in Len(w) - Threshold[k] + 1 .. Len(w)
      BY <1>1, <1>3
    <2> QED
      BY <1>1, <1>3, <2>1 DEF AllDown, Last
  <1>4. ASSUME AllDown(w, Threshold[k])
        PROVE  /\ Len(w) >= Threshold[k]
               /\ \A i \in Len(w) - Threshold[k] + 1 .. Len(w) : w[i].status = "down"
    <2>1. ASSUME NEW i \in Len(w) - Threshold[k] + 1 .. Len(w) PROVE w[i].status = "down"
      <3>1. Len(w) - i + 1 \in 1 .. Threshold[k] /\ Len(w) - (Len(w) - i + 1) + 1 = i
        BY <1>1
      <3> QED
        BY <1>4, <3>1 DEF AllDown, Last
    <2> QED
      BY <1>1, <1>4, <2>1 DEF AllDown
  <1> QED
    BY <1>2, <1>3, <1>4

-----------------------------------------------------------------------------
\* A step of Failover is a step of Suppression, or changes nothing of it.
LEMMA StepImplements == FailoverTypeOK /\ [FailoverNext]_allVars => [Next]_vars
  <1> SUFFICES ASSUME FailoverTypeOK, [FailoverNext]_allVars PROVE [Next]_vars
    OBVIOUS
  <1>1. ASSUME NEW n \in Node, NewTerm(n) PROVE [Next]_vars
    BY <1>1 DEF NewTerm, Next
  <1>2. ASSUME NEW n \in Node, NewProcess(n) PROVE [Next]_vars
    BY <1>2 DEF NewProcess, Next
  <1>3. ASSUME NEW n \in Node, TermEnds(n) PROVE [Next]_vars
    BY <1>3 DEF TermEnds, Next
  <1>4. ASSUME NEW n \in Node, NEW c \in Pool, PoolStarts(n, c) \/ PoolEnds(n, c)
        PROVE  [Next]_vars
    BY <1>4 DEF PoolStarts, PoolEnds, Next
  <1>5. ASSUME NEW n \in Node, NEW c \in Pool, NEW k \in Key, NEW status \in {"up", "down"},
               OnResultPush(n, c, k, status)
        PROVE  [Next]_vars
    BY <1>5 DEF OnResultPush
  <1>6. ASSUME NEW o \in calls, OnResultMatch(o) PROVE [Next]_vars
    BY <1>6 DEF OnResultMatch
  <1>7. ASSUME NEW o \in calls, OnResultAllow(o) PROVE [Next]_vars
    <2>1. o.node \in Node /\ o.key \in Key
      BY DEF FailoverTypeOK, Call
    <2>2. CASE Fire(o.node, o.key)
      BY <2>1, <2>2 DEF Next
    <2>3. CASE UNCHANGED vars
      BY <2>3
    <2> QED
      BY <1>7, <2>2, <2>3 DEF OnResultAllow
  <1>8. CASE Elsewhere
    BY <1>8 DEF Elsewhere, Next
  <1>9. CASE UNCHANGED allVars
    BY <1>9 DEF allVars
  <1> QED
    BY <1>1, <1>2, <1>3, <1>4, <1>5, <1>6, <1>7, <1>8, <1>9 DEF FailoverNext

-----------------------------------------------------------------------------
\* A process starts with empty windows, and nobody has failed or fired.
LEMMA FailoverInvInit == FailoverInit => FailoverInv
  <1> SUFFICES ASSUME FailoverInit PROVE FailoverInv
    OBVIOUS
  <1>1. TypeOK
    BY InvInit DEF FailoverInit, Inv
  <1>2. Threshold \in [Key -> Nat \ {0}] /\ WindowCap \in Nat \ {0} /\ MaxResults \in Nat
    BY FailoverAssumption, WindowAssumption
  <1>3. <<>> \in Seq(Result) /\ Len(<<>>) = 0
    OBVIOUS
  <1>4. FailoverTypeOK
    <2>1. window \in [Node -> [Key -> Seq(Result)]]
      BY <1>3 DEF FailoverInit
    <2>2. \A n \in Node, k \in Key : Len(window[n][k]) <= WindowCap
      BY <1>2, <1>3 DEF FailoverInit
    <2>3. calls \subseteq Call /\ pool \in [Node -> [Pool -> {"none", "term", "old"}]]
      BY DEF FailoverInit
    <2> QED
      BY <1>1, <1>2, <2>1, <2>2, <2>3 DEF FailoverInit, FailoverTypeOK, Counts
  <1>5. MemoryOldInv
    BY DEF MemoryOldInv, FailoverInit, Init, Nothing, Never
  <1>6. TailInv
    <2>1. AllDown(<<>>, 0)
      BY <1>3 DEF AllDown
    <2> QED
      BY <1>2, <2>1 DEF TailInv, FailoverInit
  <1>7. StreakInv
    BY <1>2 DEF StreakInv, FailoverInit, Init
  <1>8. PoolInv /\ CallInv
    BY DEF PoolInv, CallInv, FailoverInit
  <1> QED
    BY <1>4, <1>5, <1>6, <1>7, <1>8 DEF FailoverInv

\* The call that a push adds, and what it leaves of another.
NewCall(n, c, k, status) ==
    [node |-> n, pool |-> c, key |-> k, step |-> "pushed",
     due |-> InARow(k, downs[n][k], status) = Threshold[k]]

Hidden(o, n, k, status) == o.node = n /\ o.key = k /\ o.step = "pushed" /\ status = "up"

Left(o, n, k, status) == IF Hidden(o, n, k, status) THEN [o EXCEPT !.due = FALSE] ELSE o

\* A push takes nothing from the other calls but that they were due.
LEMMA PushCalls ==
    ASSUME FailoverTypeOK, NEW n \in Node, NEW c \in Pool, NEW k \in Key,
           NEW status \in {"up", "down"}, OnResultPush(n, c, k, status)
    PROVE  /\ calls' \subseteq Call
           /\ \A q \in calls' :
                \/ /\ q = NewCall(n, c, k, status)
                   /\ q.node = n /\ q.pool = c /\ q.key = k /\ q.step = "pushed"
                   /\ q.due <=> InARow(k, downs[n][k], status) = Threshold[k]
                \/ \E o \in calls :
                      /\ q = Left(o, n, k, status)
                      /\ q.node = o.node /\ q.pool = o.pool /\ q.key = o.key
                      /\ q.step = o.step
                      /\ q.due => o.due /\ ~Hidden(o, n, k, status)
  <1> DEFINE new == NewCall(n, c, k, status)
             L(o) == Left(o, n, k, status)
             H(o) == Hidden(o, n, k, status)
  <1>1. calls' = {L(o) : o \in calls} \cup {new}
    BY DEF OnResultPush, Hide, NewCall, Left, Hidden
  <1>2. /\ new \in Call
        /\ new.node = n /\ new.pool = c /\ new.key = k /\ new.step = "pushed"
        /\ new.due <=> InARow(k, downs[n][k], status) = Threshold[k]
    BY DEF Call, NewCall
  <1>3. ASSUME NEW o \in calls
        PROVE  /\ L(o) \in Call
               /\ L(o).node = o.node /\ L(o).pool = o.pool /\ L(o).key = o.key
               /\ L(o).step = o.step /\ (L(o).due => o.due /\ ~H(o))
    BY DEF FailoverTypeOK, Call, Left, Hidden
  <1> HIDE DEF new, L, H
  <1>4. calls' \subseteq Call
    BY <1>1, <1>2, <1>3
  <1>5. ASSUME NEW q \in calls'
        PROVE  \/ /\ q = new
                  /\ q.node = n /\ q.pool = c /\ q.key = k /\ q.step = "pushed"
                  /\ q.due <=> InARow(k, downs[n][k], status) = Threshold[k]
               \/ \E o \in calls :
                      /\ q = L(o)
                      /\ q.node = o.node /\ q.pool = o.pool /\ q.key = o.key
                      /\ q.step = o.step
                      /\ q.due => o.due /\ ~H(o)
    <2>1. CASE q = new
      BY <1>2, <2>1
    <2>2. ASSUME NEW o \in calls, q = L(o)
          PROVE  /\ q.node = o.node /\ q.pool = o.pool /\ q.key = o.key
                 /\ q.step = o.step /\ (q.due => o.due /\ ~H(o))
      BY <1>3, <2>2
    <2> QED
      BY <1>1, <2>1, <2>2
  <1> QED
    BY <1>4, <1>5 DEF new, L, H

\* Results and terms aside, no step touches the windows, and nobody comes to work.
LEMMA QuietFacts ==
    ASSUME FailoverTypeOK, Quiet
    PROVE  /\ UNCHANGED <<window, tenure, downs, streak>>
           /\ disorder => disorder'
           /\ \A m \in Node : zombie'[m] \/ role'[m] # "follower"
                                  => zombie[m] \/ role[m] # "follower"
  <1> USE DEF FailoverTypeOK, TypeOK
  <1>1. ASSUME NEW n \in Node, TermEnds(n)
        PROVE  /\ UNCHANGED <<window, tenure, downs, streak>>
               /\ disorder => disorder'
               /\ \A m \in Node : zombie'[m] \/ role'[m] # "follower"
                                      => zombie[m] \/ role[m] # "follower"
    BY <1>1 DEF TermEnds, Demote
  <1>2. ASSUME NEW n \in Node, NEW c \in Pool, PoolStarts(n, c)
        PROVE  /\ UNCHANGED <<window, tenure, downs, streak>>
               /\ disorder => disorder'
               /\ \A m \in Node : zombie'[m] \/ role'[m] # "follower"
                                      => zombie[m] \/ role[m] # "follower"
    BY <1>2 DEF PoolStarts, LoadApply, LoadFailed
  <1>3. ASSUME NEW n \in Node, NEW c \in Pool, PoolEnds(n, c)
        PROVE  /\ UNCHANGED <<window, tenure, downs, streak>>
               /\ disorder => disorder'
               /\ \A m \in Node : zombie'[m] \/ role'[m] # "follower"
                                      => zombie[m] \/ role[m] # "follower"
    BY <1>3 DEF PoolEnds, PoolStopped, vars
  <1>4. ASSUME NEW o \in calls, OnResultMatch(o) \/ OnResultAllow(o)
        PROVE  /\ UNCHANGED <<window, tenure, downs, streak>>
               /\ UNCHANGED <<disorder, zombie, role>>
    BY <1>4 DEF OnResultMatch, OnResultAllow, Fire, vars
  <1>5. CASE Elsewhere
    BY <1>5 DEF Elsewhere, failoverVars, LoadRead, PutLands, PutLost, Tick
  <1>6. CASE UNCHANGED allVars
    BY <1>6 DEF allVars, failoverVars, vars
  <1> QED
    BY <1>1, <1>2, <1>3, <1>4, <1>5, <1>6 DEF Quiet

\* The variables that Failover adds keep their types.
LEMMA FailoverTypeStep == FailoverTypeOK /\ [FailoverNext]_allVars => FailoverTypeOK'
  <1> SUFFICES ASSUME FailoverTypeOK, [FailoverNext]_allVars PROVE FailoverTypeOK'
    OBVIOUS
  <1>0. TypeOK'
    BY StepImplements, TypeStep DEF FailoverTypeOK
  <1> USE DEF FailoverTypeOK, failoverVars
  <1>1. /\ Threshold \in [Key -> Nat \ {0}] /\ WindowCap \in Nat \ {0} /\ MaxResults \in Nat
        /\ <<>> \in Seq(Result) /\ Len(<<>>) = 0
    BY FailoverAssumption, WindowAssumption
  <1>2. ASSUME NEW n \in Node, NewTerm(n) PROVE FailoverTypeOK'
    BY <1>0, <1>2 DEF NewTerm, Counts
  <1>3. ASSUME NEW n \in Node, NewProcess(n) PROVE FailoverTypeOK'
    <2>1. window' \in [Node -> [Key -> Seq(Result)]]
          /\ \A m \in Node, k \in Key : Len(window'[m][k]) <= WindowCap
      BY <1>1, <1>3 DEF NewProcess
    <2>2. tenure' \in [Node -> Counts] /\ downs' \in [Node -> Counts]
      BY <1>3 DEF NewProcess, Counts
    <2> QED
      BY <1>0, <1>3, <2>1, <2>2 DEF NewProcess
  <1>4. ASSUME NEW n \in Node, NEW c \in Pool, NEW k \in Key, NEW status \in {"up", "down"},
               OnResultPush(n, c, k, status)
        PROVE  FailoverTypeOK'
    <2>1. [status |-> status] \in Result
      BY DEF Result
    <2>2. /\ Push(window[n][k], [status |-> status]) \in Seq(Result)
          /\ Len(Push(window[n][k], [status |-> status])) <= WindowCap
      <3>1. window[n][k] \in Seq(Result) /\ Len(window[n][k]) <= WindowCap
        OBVIOUS
      <3> QED
        BY ONLY <1>1, <2>1, <3>1, PushFacts
    <2>3. window' = [window EXCEPT ![n][k] = Push(window[n][k], [status |-> status])]
      BY <1>4 DEF OnResultPush
    <2>4. window' \in [Node -> [Key -> Seq(Result)]]
          /\ \A m \in Node, j \in Key : Len(window'[m][j]) <= WindowCap
      BY <2>2, <2>3
    <2>5. \A d \in Nat : UpTo(k, d + 1) \in Nat /\ InARow(k, d, status) \in Nat
      BY <1>1 DEF UpTo, InARow
    <2>6. /\ tenure' = [tenure EXCEPT ![n][k] = UpTo(k, @ + 1)]
          /\ downs' = [downs EXCEPT ![n][k] = InARow(k, @, status)]
          /\ streak' = [streak EXCEPT ![k] = InARow(k, @, status)]
          /\ results < MaxResults /\ results' = results + 1
          /\ pool' = pool
      BY <1>4 DEF OnResultPush, MoreToCome
    <2>7. tenure' \in [Node -> Counts] /\ downs' \in [Node -> Counts] /\ streak' \in Counts
      BY <2>5, <2>6 DEF Counts
    <2>8. calls' \subseteq Call
      BY <1>4, PushCalls
    <2> QED
      BY <1>0, <1>1, <2>4, <2>6, <2>7, <2>8
  <1>5. ASSUME NEW o \in calls, OnResultMatch(o) PROVE FailoverTypeOK'
    <2>1. [o EXCEPT !.step = "hit"] \in Call
      BY DEF Call
    <2>2. calls' \subseteq Call
      BY <1>5, <2>1 DEF OnResultMatch
    <2> QED
      BY <1>0, <1>5, <2>2 DEF OnResultMatch
  <1>6. ASSUME NEW o \in calls, OnResultAllow(o) PROVE FailoverTypeOK'
    BY <1>0, <1>6 DEF OnResultAllow
  <1>7. ASSUME NEW n \in Node, TermEnds(n) PROVE FailoverTypeOK'
    BY <1>0, <1>7 DEF TermEnds
  <1>8. ASSUME NEW n \in Node, NEW c \in Pool, PoolStarts(n, c) \/ PoolEnds(n, c)
        PROVE  FailoverTypeOK'
    <2>1. pool' = [pool EXCEPT ![n][c] = "term"] \/ pool' = [pool EXCEPT ![n][c] = "none"]
      BY <1>8 DEF PoolStarts, PoolEnds
    <2>2. pool' \in [Node -> [Pool -> {"none", "term", "old"}]]
      <3>1. pool \in [Node -> [Pool -> {"none", "term", "old"}]]
        OBVIOUS
      <3> QED
        BY ONLY <2>1, <3>1, n \in Node, c \in Pool
    <2>3. UNCHANGED <<window, calls, tenure, downs, streak, results>>
      BY <1>8 DEF PoolStarts, PoolEnds
    <2> QED
      BY <1>0, <2>2, <2>3
  <1>9. CASE Elsewhere
    BY <1>0, <1>9 DEF Elsewhere
  <1>10. CASE UNCHANGED allVars
    BY <1>0, <1>10 DEF allVars
  <1> QED
    BY <1>2, <1>3, <1>4, <1>5, <1>6, <1>7, <1>8, <1>9, <1>10 DEF FailoverNext

\* Whoever remembers a firing remembers one that was an alert, and alerts are
\* only followed by younger ones.
LEMMA MemoryOldStep == Inv /\ MemoryOldInv /\ [Next]_vars => MemoryOldInv'
  <1> SUFFICES ASSUME Inv, MemoryOldInv, [Next]_vars PROVE MemoryOldInv'
    OBVIOUS
  <1> USE DEF Inv, TypeOK, MemoryOldInv
  <1>0. /\ \A k \in Key : stored[k] \in Nat /\ lastAlert[k] \in Nat /\ lastAlert[k] <= now
        /\ \A n \in Node, k \in Key : lastFired[n][k] \in Nat /\ read[n][k] \in Nat
        /\ now \in Nat
    BY DEF Stamps, Time, Never, RecentInv
  <1>1. ASSUME NEW n \in Node, Elect(n) \/ LoadFailed(n) \/ Demote(n) \/ PoolStopped(n)
        PROVE  MemoryOldInv'
    BY <1>1 DEF Elect, LoadFailed, Demote, PoolStopped
  <1>2. ASSUME NEW n \in Node, LoadRead(n) PROVE MemoryOldInv'
    BY <1>2 DEF LoadRead
  <1>3. ASSUME NEW n \in Node, LoadApply(n) PROVE MemoryOldInv'
    BY <1>0, <1>3 DEF LoadApply, Merge, Nothing, Never
  <1>4. ASSUME NEW n \in Node, Restart(n) PROVE MemoryOldInv'
    BY <1>0, <1>4 DEF Restart, Nothing, Never
  <1>5. ASSUME NEW n \in Node, NEW k \in Key, Fire(n, k) PROVE MemoryOldInv'
    <2>1. \A j \in Key : lastAlert'[j] = IF j = k THEN now ELSE lastAlert[j]
      BY <1>5 DEF Fire, Stamps
    <2>2. \A m \in Node, j \in Key :
              lastFired'[m][j] = lastFired[m][j] \/ (j = k /\ lastFired'[m][j] = now)
      BY <1>5 DEF Fire, Stamps
    <2> SUFFICES ASSUME NEW j \in Key
                 PROVE  /\ stored[j] <= lastAlert'[j]
                        /\ \A m \in Node : /\ lastFired'[m][j] <= lastAlert'[j]
                                           /\ read[m][j] <= lastAlert'[j]
      BY <1>5 DEF Fire
    <2>3. lastAlert[j] <= lastAlert'[j] /\ (j = k => lastAlert'[j] = now)
      BY <1>0, <2>1
    <2> QED
      BY <1>0, <2>1, <2>2, <2>3
  <1>6. ASSUME NEW p \in puts, PutLands(p) PROVE MemoryOldInv'
    <2>1. p.key \in Key /\ p.at = now /\ lastAlert[p.key] = now
      BY DEF Put, RecentInv
    <2> QED
      BY <1>0, <1>6, <2>1 DEF PutLands, Stamps
  <1>7. ASSUME NEW p \in puts, PutLost(p) PROVE MemoryOldInv'
    BY <1>7 DEF PutLost
  <1>8. CASE Tick \/ UNCHANGED vars
    BY <1>8 DEF Tick, vars
  <1> QED
    BY <1>1, <1>2, <1>3, <1>4, <1>5, <1>6, <1>7, <1>8 DEF Next

\* A failure lengthens the run at the end of the window, a success ends it.
LEMMA TailStep == FailoverTypeOK /\ TailInv /\ [FailoverNext]_allVars => TailInv'
  <1> SUFFICES ASSUME FailoverTypeOK, TailInv, [FailoverNext]_allVars PROVE TailInv'
    OBVIOUS
  <1> USE DEF FailoverTypeOK, TailInv
  <1>0. /\ Threshold \in [Key -> Nat \ {0}] /\ WindowCap \in Nat \ {0}
        /\ \A n \in Node, k \in Key : downs[n][k] \in Nat
    BY FailoverAssumption, WindowAssumption DEF Counts
  <1>1. ASSUME NEW n \in Node, NewTerm(n) PROVE TailInv'
    BY <1>1 DEF NewTerm
  <1>2. ASSUME NEW n \in Node, NewProcess(n) PROVE TailInv'
    <2>1. AllDown(<<>>, 0)
      BY DEF AllDown
    <2>2. ASSUME NEW m \in Node, NEW k \in Key
          PROVE  \/ window'[m][k] = window[m][k] /\ downs'[m][k] = downs[m][k]
                 \/ window'[m][k] = <<>> /\ downs'[m][k] = 0
      BY <1>2 DEF NewProcess, Counts
    <2>3. ASSUME NEW m \in Node, NEW k \in Key
          PROVE  /\ downs'[m][k] <= Threshold[k]
                 /\ Threshold[k] <= WindowCap => AllDown(window'[m][k], downs'[m][k])
      <3>1. Threshold[k] \in Nat \ {0} /\ downs[m][k] <= Threshold[k]
        BY <1>0
      <3>2. CASE window'[m][k] = window[m][k] /\ downs'[m][k] = downs[m][k]
        BY <3>1, <3>2
      <3>3. CASE window'[m][k] = <<>> /\ downs'[m][k] = 0
        BY <2>1, <3>1, <3>3
      <3> QED
        BY <2>2, <3>2, <3>3
    <2> QED
      BY <2>3 DEF AllDown, Last
  <1>3. ASSUME NEW n \in Node, NEW c \in Pool, NEW k \in Key, NEW status \in {"up", "down"},
               OnResultPush(n, c, k, status)
        PROVE  TailInv'
    <2> DEFINE r == [status |-> status]
               w == Push(window[n][k], r)
               d == InARow(k, downs[n][k], status)
    <2>1. /\ window' = [window EXCEPT ![n][k] = w]
          /\ downs' = [downs EXCEPT ![n][k] = d]
      BY <1>3 DEF OnResultPush
    <2>2. d \in Nat /\ d <= Threshold[k]
      BY <1>0 DEF InARow, UpTo
    <2>3. ASSUME Threshold[k] <= WindowCap PROVE AllDown(w, d)
      <3>1. r \in Result /\ window[n][k] \in Seq(Result) /\ Len(window[n][k]) <= WindowCap
        BY DEF Result
      <3>2. CASE status = "up"
        <4>1. d = 0 /\ w \in Seq(Result)
          BY <3>1, <3>2, PushFacts DEF InARow
        <4> QED
          BY <4>1 DEF AllDown
      <3>3. CASE status = "down"
        <4>1. AllDown(window[n][k], downs[n][k])
          BY <2>3
        <4>2. d \in Nat \ {0} /\ d <= WindowCap /\ d - 1 <= downs[n][k]
          BY <1>0, <2>2, <2>3, <3>3 DEF InARow, UpTo
        <4>3. AllDown(window[n][k], d - 1)
          BY <1>0, <3>1, <4>1, <4>2 DEF AllDown
        <4> HIDE DEF d, w
        <4> QED
          BY <3>1, <3>3, <4>2, <4>3, PushDown DEF w
      <3> QED
        BY <3>2, <3>3
    <2>4. ASSUME NEW m \in Node, NEW j \in Key
          PROVE  \/ m = n /\ j = k /\ window'[m][j] = w /\ downs'[m][j] = d
                 \/ window'[m][j] = window[m][j] /\ downs'[m][j] = downs[m][j]
      BY <2>1 DEF Counts
    <2> HIDE DEF w, d
    <2> QED
      BY <2>2, <2>3, <2>4
  <1>4. CASE Quiet
    BY <1>4, QuietFacts
  <1> QED
    BY <1>1, <1>2, <1>3, <1>4 DEF FailoverNext, Quiet

\* While leaders come one after the other, only the one at work adds results.
LEMMA StreakStep ==
    FailoverTypeOK /\ AloneInv /\ StreakInv /\ PoolInv /\ [FailoverNext]_allVars => StreakInv'
  <1> SUFFICES ASSUME FailoverTypeOK, AloneInv, StreakInv, PoolInv, [FailoverNext]_allVars
               PROVE  StreakInv'
    OBVIOUS
  <1> USE DEF StreakInv
  <1>0. /\ Threshold \in [Key -> Nat \ {0}] /\ WindowCap \in Nat \ {0}
        /\ \A k \in Key : Threshold[k] \in Nat /\ Threshold[k] > 0
        /\ \A n \in Node, k \in Key : tenure[n][k] \in Nat
        /\ \A k \in Key : streak[k] \in Nat
    BY FailoverAssumption, WindowAssumption DEF FailoverTypeOK, Counts
  <1>1. ASSUME NEW n \in Node, NewTerm(n) PROVE StreakInv'
    <2>1. ASSUME NEW m \in Node, NEW k \in Key
          PROVE  \/ tenure'[m][k] = 0
                 \/ m # n /\ tenure'[m][k] = tenure[m][k] /\ role'[m] = role[m]
      BY <1>1 DEF NewTerm, Elect, Counts, FailoverTypeOK, TypeOK
    <2>2. (disorder => disorder') /\ zombie' = zombie /\ window' = window /\ streak' = streak
      BY <1>1 DEF NewTerm, Elect
    <2>3. ASSUME NEW m \in Node, NEW k \in Key, ~disorder', zombie'[m] \/ role'[m] # "follower",
                 NEW j \in 1 .. tenure'[m][k], AllDown(window'[m][k], j)
          PROVE  streak'[k] >= j
      BY <1>0, <2>1, <2>2, <2>3
    <2>4. \A m \in Node, k \in Key : tenure'[m][k] <= Threshold[k]
      BY <1>0, <2>1
    <2> QED
      BY <2>2, <2>3, <2>4
  <1>2. ASSUME NEW n \in Node, NewProcess(n) PROVE StreakInv'
    <2>1. ASSUME NEW m \in Node, NEW k \in Key
          PROVE  \/ tenure'[m][k] = 0
                 \/ /\ tenure'[m][k] = tenure[m][k] /\ window'[m][k] = window[m][k]
                    /\ role'[m] = role[m] /\ zombie'[m] = zombie[m]
      BY <1>2 DEF NewProcess, Restart, Counts, FailoverTypeOK, TypeOK
    <2>2. disorder' = disorder /\ streak' = streak
      BY <1>2 DEF NewProcess, Restart
    <2>3. ASSUME NEW m \in Node, NEW k \in Key, ~disorder', zombie'[m] \/ role'[m] # "follower",
                 NEW j \in 1 .. tenure'[m][k], AllDown(window'[m][k], j)
          PROVE  streak'[k] >= j
      BY <1>0, <2>1, <2>2, <2>3
    <2>4. \A m \in Node, k \in Key : tenure'[m][k] <= Threshold[k]
      BY <1>0, <2>1
    <2> QED
      BY <2>2, <2>3, <2>4
  <1>3. ASSUME NEW n \in Node, NEW c \in Pool, NEW k \in Key, NEW status \in {"up", "down"},
               OnResultPush(n, c, k, status)
        PROVE  StreakInv'
    <2> DEFINE r == [status |-> status]
               w == Push(window[n][k], r)
               t == UpTo(k, tenure[n][k] + 1)
               s == InARow(k, streak[k], status)
    <2>1. /\ window' = [window EXCEPT ![n][k] = w]
          /\ tenure' = [tenure EXCEPT ![n][k] = t]
          /\ streak' = [streak EXCEPT ![k] = s]
          /\ zombie[n] \/ role[n] = "serving"
      BY <1>3 DEF OnResultPush, PoolInv, FailoverTypeOK
    <2>2. zombie' = zombie /\ role' = role /\ disorder' = disorder
      BY <1>3 DEF OnResultPush, vars
    <2>3. t \in Nat /\ t <= Threshold[k] /\ t <= tenure[n][k] + 1 /\ s \in Nat /\ s <= Threshold[k]
      BY <1>0 DEF UpTo, InARow
    <2>4. ASSUME NEW j \in 1 .. t, AllDown(w, j), ~disorder PROVE s >= j
      <3>1. r \in Result /\ window[n][k] \in Seq(Result) /\ Len(window[n][k]) <= WindowCap
        BY DEF Result, FailoverTypeOK
      <3>2. j \in Nat \ {0}
        BY <2>3
      <3>3. r.status = "down" /\ AllDown(window[n][k], j - 1)
        BY <2>4, <3>1, <3>2, PushDown
      <3>4. streak[k] >= j - 1
        <4>1. CASE j = 1
          BY <1>0, <4>1
        <4>2. CASE j # 1
          <5>1. j - 1 \in 1 .. tenure[n][k]
            BY <1>0, <2>3, <4>2
          <5> QED
            BY <2>1, <2>4, <3>3, <5>1
        <4> QED
          BY <4>1, <4>2
      <3>5. s = IF streak[k] + 1 > Threshold[k] THEN Threshold[k] ELSE streak[k] + 1
        BY <3>3 DEF InARow, UpTo
      <3> QED
        BY <1>0, <2>3, <3>2, <3>4, <3>5
    <2>5. ASSUME NEW m \in Node, NEW j \in Key, ~disorder, zombie[m] \/ role[m] # "follower"
          PROVE  m = n /\ (j = k => /\ window'[m][j] = w /\ tenure'[m][j] = t
                                    /\ streak'[j] = s)
                       /\ (j # k => /\ window'[m][j] = window[m][j]
                                    /\ tenure'[m][j] = tenure[m][j] /\ streak'[j] = streak[j])
      BY <2>1, <2>5 DEF AloneInv, Counts, FailoverTypeOK, TypeOK
    <2>6. ASSUME NEW m \in Node, NEW j \in Key
          PROVE  /\ tenure'[m][j] = tenure[m][j] \/ (j = k /\ tenure'[m][j] = t)
                 /\ streak'[j] = streak[j] \/ (j = k /\ streak'[j] = s)
      BY <2>1 DEF Counts, FailoverTypeOK
    <2> HIDE DEF w, t, s
    <2>7. /\ \A j \in Key : streak'[j] <= Threshold[j]
          /\ \A m \in Node, j \in Key : tenure'[m][j] <= Threshold[j]
      BY <2>3, <2>6
    <2>8. ASSUME NEW m \in Node, NEW j \in Key, ~disorder, zombie[m] \/ role[m] # "follower",
                 NEW i \in 1 .. tenure'[m][j], AllDown(window'[m][j], i)
          PROVE  streak'[j] >= i
      <3>1. CASE j = k
        BY <2>4, <2>5, <2>8, <3>1
      <3>2. CASE j # k
        BY <2>5, <2>8, <3>2
      <3> QED
        BY <3>1, <3>2
    <2> QED
      BY <2>2, <2>7, <2>8
  <1>4. CASE Quiet
    BY <1>4, QuietFacts
  <1> QED
    BY <1>1, <1>2, <1>3, <1>4 DEF FailoverNext, Quiet

\* Collectors come with a term, and leave when they are in no call.
LEMMA PoolStep ==
    FailoverTypeOK /\ AloneInv /\ PoolInv /\ [FailoverNext]_allVars => PoolInv'
  <1> SUFFICES ASSUME FailoverTypeOK, AloneInv, PoolInv, [FailoverNext]_allVars
               PROVE  PoolInv'
    OBVIOUS
  <1> USE DEF FailoverTypeOK, TypeOK, PoolInv
  <1>0. \A o \in calls : o.node \in Node /\ o.pool \in Pool /\ o.key \in Key
    BY DEF Call
  <1>1. ASSUME NEW n \in Node, NewTerm(n) PROVE PoolInv'
    BY <1>0, <1>1 DEF NewTerm, Elect
  <1>2. ASSUME NEW n \in Node, NewProcess(n) PROVE PoolInv'
    BY <1>0, <1>2 DEF NewProcess, Restart
  <1>3. ASSUME NEW n \in Node, TermEnds(n) PROVE PoolInv'
    <2>1. /\ role[n] = "serving" /\ role' = [role EXCEPT ![n] = "follower"]
          /\ zombie' = [zombie EXCEPT ![n] = TRUE] /\ disorder' = disorder /\ calls' = calls
      BY <1>3 DEF TermEnds, Demote
    <2>2. \A m \in Node, c \in Pool :
              pool'[m][c] = IF m = n /\ pool[m][c] = "term" THEN "old" ELSE pool[m][c]
      BY <1>3 DEF TermEnds
    <2>3. \A m \in Node, c \in Pool : pool'[m][c] # "none" <=> pool[m][c] # "none"
      BY <2>2
    <2>4. \A m \in Node, c \in Pool : /\ pool'[m][c] = "term" => role'[m] = "serving"
                                      /\ pool'[m][c] = "old" => zombie'[m]
      BY <2>1, <2>2
    <2> QED
      BY <1>0, <2>1, <2>3, <2>4
  <1>4. ASSUME NEW n \in Node, NEW c \in Pool, PoolStarts(n, c) PROVE PoolInv'
    <2>1. /\ role[n] # "follower" /\ role' = [role EXCEPT ![n] = "serving"]
          /\ role[n] # "serving" /\ zombie' = zombie /\ (disorder => disorder')
          /\ calls' = calls /\ pool[n][c] = "none" /\ pool' = [pool EXCEPT ![n][c] = "term"]
      BY <1>4 DEF PoolStarts, LoadApply, LoadFailed
    <2>2. ~disorder => \A d \in Pool : pool[n][d] = "none"
      BY <2>1 DEF AloneInv
    <2>3. \A m \in Node, d \in Pool :
              pool'[m][d] = IF m = n /\ d = c THEN "term" ELSE pool[m][d]
      BY <2>1
    <2>4. \A m \in Node, d \in Pool : /\ pool'[m][d] = "term" => role'[m] = "serving"
                                      /\ pool'[m][d] = "old" => zombie'[m]
      BY <2>1, <2>3
    <2> QED
      BY <1>0, <2>1, <2>2, <2>3, <2>4
  <1>5. ASSUME NEW n \in Node, NEW c \in Pool, PoolEnds(n, c) PROVE PoolInv'
    <2>1. /\ role' = role /\ disorder' = disorder /\ calls' = calls
          /\ pool' = [pool EXCEPT ![n][c] = "none"]
          /\ zombie' = zombie \/ /\ zombie' = [zombie EXCEPT ![n] = FALSE]
                                 /\ \A d \in Pool \ {c} : pool[n][d] # "old"
      BY <1>5 DEF PoolEnds, PoolStopped, vars
    <2>2. \A m \in Node, d \in Pool :
              pool'[m][d] = IF m = n /\ d = c THEN "none" ELSE pool[m][d]
      BY <2>1
    <2>3. \A o \in calls : ~(o.node = n /\ o.pool = c)
      BY <1>5 DEF PoolEnds, Busy
    <2>4. \A m \in Node, d \in Pool : /\ pool'[m][d] = "term" => role'[m] = "serving"
                                      /\ pool'[m][d] = "old" => zombie'[m]
      BY <2>1, <2>2
    <2> QED
      BY <1>0, <2>1, <2>2, <2>3, <2>4
  <1>6. ASSUME NEW n \in Node, NEW c \in Pool, NEW k \in Key, NEW status \in {"up", "down"},
               OnResultPush(n, c, k, status)
        PROVE  PoolInv'
    <2>1. /\ UNCHANGED <<role, zombie, disorder, pool>> /\ pool[n][c] # "none"
          /\ \A o \in calls : ~(o.node = n /\ o.pool = c)
      BY <1>6 DEF OnResultPush, Busy, vars
    <2>2. ASSUME NEW q \in calls'
          PROVE  \/ q = NewCall(n, c, k, status) /\ q.node = n /\ q.pool = c
                 \/ \E o \in calls : /\ q = Left(o, n, k, status)
                                      /\ q.node = o.node /\ q.pool = o.pool
      BY <1>6, PushCalls
    <2>3. ASSUME NEW q \in calls' PROVE pool'[q.node][q.pool] # "none"
      <3>1. CASE q.node = n /\ q.pool = c
        BY <2>1, <3>1
      <3>2. ASSUME NEW o \in calls, q.node = o.node, q.pool = o.pool
            PROVE  pool'[q.node][q.pool] # "none"
        BY <2>1, <3>2
      <3> QED
        BY <2>2, <3>1, <3>2
    <2>4. ASSUME NEW q \in calls', NEW r \in calls', q.node = r.node, q.pool = r.pool
          PROVE  q = r
      <3>1. \A o, p \in calls : o.node = p.node /\ o.pool = p.pool => o = p
        OBVIOUS
      <3> QED
        BY ONLY <2>1, <2>2, <2>4, <3>1
    <2> QED
      BY <2>1, <2>3, <2>4
  <1>7. ASSUME NEW o \in calls, OnResultMatch(o) PROVE PoolInv'
    <2>1. UNCHANGED <<role, zombie, disorder, pool>>
      BY <1>7 DEF OnResultMatch, vars
    <2> DEFINE hit == [o EXCEPT !.step = "hit"]
    <2>2. hit.node = o.node /\ hit.pool = o.pool
      BY DEF Call
    <2>3. calls' \subseteq (calls \ {o}) \cup {hit}
      BY <1>7 DEF OnResultMatch
    <2> HIDE DEF hit
    <2>4. \A q \in calls' : pool'[q.node][q.pool] # "none"
      BY <2>1, <2>2, <2>3
    <2>5. ASSUME NEW q \in calls', NEW r \in calls', q.node = r.node, q.pool = r.pool
          PROVE  q = r
      BY <2>2, <2>3, <2>5
    <2> QED
      BY <2>1, <2>4, <2>5
  <1>8. ASSUME NEW o \in calls, OnResultAllow(o) PROVE PoolInv'
    <2>1. UNCHANGED <<role, zombie, disorder, pool>> /\ calls' \subseteq calls
      BY <1>8 DEF OnResultAllow, Fire, vars
    <2> QED
      BY <2>1
  <1>9. CASE Elsewhere
    <2>1. /\ UNCHANGED <<zombie, pool, calls>> /\ (disorder => disorder')
          /\ \A m \in Node : role[m] = "serving" => role'[m] = "serving"
      BY <1>9 DEF Elsewhere, failoverVars, LoadRead, PutLands, PutLost, Tick
    <2> QED
      BY <2>1
  <1>10. CASE UNCHANGED allVars
    BY <1>10 DEF allVars, failoverVars, vars
  <1> QED
    BY <1>1, <1>2, <1>3, <1>4, <1>5, <1>6, <1>7, <1>8, <1>9, <1>10 DEF FailoverNext

\* Whoever might take the failures of a call away is another collector.
LEMMA CallStep ==
    /\ FailoverTypeOK /\ AloneInv /\ PoolInv /\ TailInv /\ StreakInv /\ CallInv
    /\ [FailoverNext]_allVars
    => CallInv'
  <1> SUFFICES ASSUME FailoverTypeOK, AloneInv, PoolInv, TailInv, StreakInv, CallInv,
                      [FailoverNext]_allVars
               PROVE  CallInv'
    OBVIOUS
  <1> DEFINE Sound(o) ==
        /\ o.step = "pushed" /\ o.due => downs'[o.node][o.key] = Threshold[o.key]
        /\ o.step = "hit" /\ ~disorder' /\ tenure'[o.node][o.key] = Threshold[o.key]
               => streak'[o.key] = Threshold[o.key]
  <1>0. ASSUME NEW o \in calls
        PROVE  /\ o.node \in Node /\ o.pool \in Pool /\ o.key \in Key /\ o.step \in {"pushed", "hit"}
               /\ zombie[o.node] \/ role[o.node] = "serving"
               /\ Threshold[o.key] \in Nat \ {0}
    BY FailoverAssumption DEF FailoverTypeOK, Call, PoolInv
  <1>1. ASSUME NEW n \in Node, NewTerm(n) PROVE CallInv'
    <2>1. ASSUME NEW o \in calls, ~disorder' PROVE FALSE
      BY <1>0, <1>1, <2>1 DEF NewTerm, Elect
    <2>2. calls' = calls /\ downs' = downs
      BY <1>1 DEF NewTerm
    <2> QED
      BY <2>1, <2>2 DEF CallInv
  <1>2. ASSUME NEW n \in Node, NewProcess(n) PROVE CallInv'
    <2>1. /\ calls' = {o \in calls : o.node # n} /\ streak' = streak /\ disorder' = disorder
          /\ \A m \in Node \ {n} : downs'[m] = downs[m] /\ tenure'[m] = tenure[m]
      BY <1>2 DEF NewProcess, Restart, FailoverTypeOK
    <2> QED
      BY <1>0, <2>1 DEF CallInv
  <1>3. ASSUME NEW n \in Node, NEW c \in Pool, NEW k \in Key, NEW status \in {"up", "down"},
               OnResultPush(n, c, k, status)
        PROVE  CallInv'
    <2> DEFINE d == InARow(k, downs[n][k], status)
    <2>1. /\ downs' = [downs EXCEPT ![n][k] = d]
          /\ disorder' = disorder /\ pool[n][c] # "none"
          /\ \A o \in calls : ~(o.node = n /\ o.pool = c)
      BY <1>3 DEF OnResultPush, Busy, vars
    <2>2. /\ \A m \in Node, j \in Key :
                downs'[m][j] = IF m = n /\ j = k THEN d ELSE downs[m][j]
      BY <2>1 DEF FailoverTypeOK, Counts
    <2>3. disorder \/ calls = {}
      <3>1. zombie[n] \/ role[n] = "serving"
        BY <2>1 DEF PoolInv, FailoverTypeOK
      <3>2. ASSUME ~disorder, NEW o \in calls PROVE FALSE
        <4>1. o.node = n
          BY <1>0, <3>1, <3>2 DEF AloneInv
        <4>2. o.pool = c
          BY <1>0, <2>1, <3>2, <4>1 DEF PoolInv
        <4> QED
          BY <2>1, <4>1, <4>2
      <3> QED
        BY <3>2
    <2>4. ASSUME NEW o \in calls, o.step = "pushed", o.due, ~Hidden(o, n, k, status)
          PROVE  downs'[o.node][o.key] = Threshold[o.key]
      <3>1. downs[o.node][o.key] = Threshold[o.key]
        BY <2>4 DEF CallInv
      <3>2. CASE o.node = n /\ o.key = k
        <4>1. d = Threshold[k]
          BY <1>0, <2>4, <3>1, <3>2 DEF InARow, UpTo, Hidden
        <4> HIDE DEF d
        <4> QED
          BY <2>2, <3>2, <4>1
      <3>3. CASE ~(o.node = n /\ o.key = k)
        BY <1>0, <2>2, <3>1, <3>3
      <3> QED
        BY <3>2, <3>3
    <2> HIDE DEF d
    <2>5. ASSUME NEW q \in calls' PROVE Sound(q)
      <3>1. CASE /\ q.node = n /\ q.pool = c /\ q.key = k /\ q.step = "pushed"
                 /\ q.due <=> d = Threshold[k]
        BY <2>2, <3>1
      <3>2. ASSUME NEW o \in calls, q.node = o.node, q.pool = o.pool, q.key = o.key,
                   q.step = o.step,
                   q.due => o.due /\ ~Hidden(o, n, k, status)
            PROVE  Sound(q)
        BY <1>0, <2>1, <2>3, <2>4, <3>2
      <3> QED
        BY <1>3, <3>1, <3>2, PushCalls DEF d
    <2> QED
      BY <2>5 DEF CallInv
  <1>4. ASSUME NEW o \in calls, OnResultMatch(o) PROVE CallInv'
    <2>1. /\ UNCHANGED <<window, downs, tenure, streak, disorder>>
          /\ \A q \in calls' : q \in calls \/ (/\ q = [o EXCEPT !.step = "hit"]
                                               /\ Hit(o.key, window[o.node][o.key]))
      BY <1>4 DEF OnResultMatch, vars
    <2>2. ASSUME Hit(o.key, window[o.node][o.key]), ~disorder,
                 tenure[o.node][o.key] = Threshold[o.key]
          PROVE  streak[o.key] = Threshold[o.key]
      <3>1. AllDown(window[o.node][o.key], Threshold[o.key])
        BY <1>0, <2>2, HitIsAllDown DEF FailoverTypeOK
      <3>2. Threshold[o.key] \in 1 .. tenure[o.node][o.key]
        BY <1>0, <2>2
      <3>3. streak[o.key] >= Threshold[o.key] /\ streak[o.key] <= Threshold[o.key]
        BY <1>0, <2>2, <3>1, <3>2 DEF StreakInv
      <3>4. streak[o.key] \in Nat
        BY <1>0 DEF FailoverTypeOK, Counts
      <3> QED
        BY <1>0, <3>3, <3>4
    <2>3. ASSUME NEW q, q = [o EXCEPT !.step = "hit"]
          PROVE  q.node = o.node /\ q.key = o.key /\ q.step = "hit"
      BY <2>3 DEF FailoverTypeOK, Call
    <2>4. ASSUME NEW q \in calls' PROVE Sound(q)
      <3>1. CASE q \in calls
        BY <2>1, <3>1 DEF CallInv
      <3>2. CASE q = [o EXCEPT !.step = "hit"] /\ Hit(o.key, window[o.node][o.key])
        BY <2>1, <2>2, <2>3, <3>2
      <3> QED
        BY <2>1, <3>1, <3>2
    <2> QED
      BY <2>4 DEF CallInv
  <1>5. CASE Quiet /\ calls' \subseteq calls
    BY <1>0, <1>5, QuietFacts DEF CallInv
  <1>6. ASSUME NEW o \in calls, OnResultAllow(o) PROVE Quiet /\ calls' \subseteq calls
    BY <1>6 DEF Quiet, OnResultAllow
  <1>7. ASSUME NEW n \in Node, TermEnds(n) PROVE Quiet /\ calls' \subseteq calls
    BY <1>7 DEF Quiet, TermEnds
  <1>8. ASSUME NEW n \in Node, NEW c \in Pool, PoolStarts(n, c) \/ PoolEnds(n, c)
        PROVE  Quiet /\ calls' \subseteq calls
    BY <1>8 DEF Quiet, PoolStarts, PoolEnds
  <1>9. ASSUME Elsewhere \/ UNCHANGED allVars PROVE Quiet /\ calls' \subseteq calls
    BY <1>9 DEF Quiet, Elsewhere, failoverVars, allVars
  <1> QED
    BY <1>1, <1>2, <1>3, <1>4, <1>5, <1>6, <1>7, <1>8, <1>9 DEF FailoverNext

-----------------------------------------------------------------------------
\* The invariants of Failover hold beside those of Suppression.
THEOREM FailoverInvCorrect == FailoverSpec => [](Inv /\ FailoverInv)
  <1>1. FailoverInit => Inv
    BY InvInit DEF FailoverInit
  <1>2. Inv /\ FailoverInv /\ [FailoverNext]_allVars => Inv'
    BY StepImplements, TypeStep, AloneStep, RecentStep, StoredStep, MemoryStep
    DEF Inv, FailoverInv
  <1>3. Inv /\ FailoverInv /\ [FailoverNext]_allVars => FailoverInv'
    BY FailoverTypeStep, StepImplements, MemoryOldStep, TailStep, StreakStep, PoolStep, CallStep
    DEF FailoverInv, Inv
  <1> QED
    BY <1>1, <1>2, <1>3, FailoverInvInit, PTL DEF FailoverSpec

\* Failover implements Suppression: what is proved of the cooldown there holds
\* when rules match on windows.
THEOREM FailoverImplements == FailoverSpec => Spec
  <1>1. FailoverInit => Init
    BY DEF FailoverInit
  <1>2. FailoverInv /\ [FailoverNext]_allVars => [Next]_vars
    BY StepImplements DEF FailoverInv
  <1> QED
    BY <1>1, <1>2, FailoverInvCorrect, PTL DEF FailoverSpec, Spec

\* Alerts of a key stay a cooldown apart when rules match on windows.
THEOREM FailoverSpacing == FailoverSpec => SpacedAcrossTerms
  BY FailoverImplements, Spacing

\* Windows never hold more results than they have room for, in any term.
THEOREM FailoverTypeCorrect == FailoverSpec => []FailoverTypeOK
  <1>1. FailoverInv => FailoverTypeOK
    BY DEF FailoverInv
  <1> QED
    BY FailoverInvCorrect, <1>1, PTL

\* When OnResult returns from the failure that made enough of them in a row, an alert
\* has gone out within the cooldown, unless another collector of the process came in
\* between: a suppression always has an alert behind it.
THEOREM Telling == FailoverSpec => OutageTold
  <1>1. ASSUME Inv, FailoverInv, NEW o \in calls, Returns(o), o.due,
               Threshold[o.key] <= WindowCap
        PROVE  Told(o.key)'
    <2> SUFFICES ASSUME NEW n \in Node, NEW k \in Key, n = o.node, k = o.key
                 PROVE  Told(k)'
      BY <1>1 DEF FailoverInv, FailoverTypeOK, Call
    <2>0. /\ lastAlert[k] \in Nat /\ lastAlert[k] <= now /\ now \in Nat /\ now # Never
          /\ lastFired[n][k] \in Nat /\ Cooldown[k] \in Nat
      <3>1. /\ now \in Time /\ lastAlert \in Stamps /\ lastFired \in [Node -> Stamps]
            /\ lastAlert[k] <= now
        BY <1>1 DEF Inv, TypeOK, RecentInv
      <3> QED
        BY <3>1, SuppressionAssumption DEF Stamps, Time, Never
    <2>1. CASE OnResultMatch(o) /\ ~Hit(k, window[n][k])
      <3>1. downs[n][k] = Threshold[k]
        BY <1>1, <2>1 DEF FailoverInv, CallInv, OnResultMatch
      <3>2. AllDown(window[n][k], Threshold[k])
        BY <1>1, <2>0, <3>1 DEF FailoverInv, TailInv
      <3>3. window[n][k] \in Seq(Result)
        BY <1>1, <2>0 DEF FailoverInv, FailoverTypeOK
      <3> QED
        BY <2>0, <2>1, <3>2, <3>3, HitIsAllDown
    <2>2. CASE Fire(n, k)
      <3>1. lastAlert'[k] = now /\ now' = now
        BY <1>1, <2>0, <2>2 DEF Fire, Inv, TypeOK, Stamps
      <3> QED
        BY <2>0, <3>1 DEF Told, Never
    <2>3. CASE ~Allowed(n, k) /\ UNCHANGED vars
      <3>1. lastFired[n][k] # Never /\ now - lastFired[n][k] < Cooldown[k]
        BY <2>0, <2>3 DEF Allowed
      <3>2. lastFired[n][k] <= lastAlert[k]
        BY <1>1, <2>0 DEF FailoverInv, MemoryOldInv
      <3>3. lastAlert[k] # Never /\ now - lastAlert[k] < Cooldown[k]
        BY <2>0, <3>1, <3>2 DEF Never
      <3>4. lastAlert' = lastAlert /\ now' = now
        BY <2>3 DEF vars
      <3> QED
        BY <3>3, <3>4 DEF Told
    <2> QED
      BY <1>1, <2>1, <2>2, <2>3 DEF Returns, OnResultAllow
  <1>2. Inv /\ FailoverInv /\ [FailoverNext]_allVars =>
            [\A o \in calls :
                Returns(o) /\ o.due /\ Threshold[o.key] <= WindowCap => Told(o.key)']_allVars
    BY <1>1
  <1> QED
    BY FailoverInvCorrect, <1>2, PTL DEF FailoverSpec, OutageTold

\* An alert of a term that is old enough has all its failures behind it, one right
\* after the other, when leaders come one after the other: what was so when the rule
\* matched is so when the suppressor is asked.
THEOREM Justified == FailoverSpec => AlarmJustified
  <1>1. FailoverInv =>
            [\A o \in calls :
                /\ OnResultAllow(o) /\ Allowed(o.node, o.key)
                /\ tenure[o.node][o.key] = Threshold[o.key] /\ ~disorder
                => streak[o.key] = Threshold[o.key]]_allVars
    BY DEF FailoverInv, CallInv, OnResultAllow
  <1> QED
    BY FailoverInvCorrect, <1>1, PTL DEF FailoverSpec, AlarmJustified
=============================================================================
