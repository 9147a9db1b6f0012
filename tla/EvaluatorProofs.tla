-------------------------- MODULE EvaluatorProofs --------------------------
(***************************************************************************)
(* Proofs about Evaluator, for any targets, rules, outcomes and capacity   *)
(* of the window.                                                          *)
(*                                                                         *)
(* The bucket of a target is the end of its results (WindowInv), so that a *)
(* rule whose results the bucket holds matches on the bucket when all the  *)
(* results deserve it; and what the suppressor keeps of a rule with a      *)
(* cooldown is its last alert (MemoryInv).                                 *)
(***************************************************************************)
EXTENDS Evaluator, FiniteSetTheorems, FunctionTheorems, TLAPS

USE DEF Never

\* The results of one kind, and a run of them at the end: of a bucket, which is
\* as the matchers see it, and of any sequence.
Kind(b, G) == {i \in DOMAIN b : b[i] \in G}

EndsWith(b, least, G) ==
    Len(b) >= least /\ \A i \in Len(b) - least + 1 .. Len(b) : b[i] \in G

HasRun(all, least, G) ==
    \E i \in DOMAIN all : Len(all) - i + 1 >= least /\ \A j \in i .. Len(all) : all[j] \in G

\* Pushing a result keeps the bucket the end of the results.
LEMMA PushEnd ==
    ASSUME NEW R, NEW b \in Seq(R), NEW all \in Seq(R), NEW x \in R, EndOf(b, all)
    PROVE  /\ Push(b, x) \in Seq(R) /\ Len(Push(b, x)) <= WindowCap
           /\ Append(all, x) \in Seq(R) /\ Append(all, x) # all
           /\ EndOf(Push(b, x), Append(all, x))
  <1> DEFINE c == Append(b, x)
             longer == Append(all, x)
             n == Len(all)
             m == Len(b)
  <1>1. WindowCap \in Nat \ {0}
    BY WindowAssumption
  <1>2. /\ c \in Seq(R) /\ Len(c) = m + 1 /\ m \in Nat /\ DOMAIN b = 1 .. m
        /\ c[m + 1] = x /\ \A i \in 1 .. m : c[i] = b[i]
    OBVIOUS
  <1>3. /\ longer \in Seq(R) /\ Len(longer) = n + 1 /\ n \in Nat /\ DOMAIN all = 1 .. n
        /\ longer[n + 1] = x /\ \A i \in 1 .. n : longer[i] = all[i]
    OBVIOUS
  <1>4. m = (IF n < WindowCap THEN n ELSE WindowCap) /\ \A i \in 1 .. m : b[i] = all[n - m + i]
    BY <1>2 DEF EndOf
  <1> HIDE DEF c, longer, n, m
  <1>5. longer # all
    BY <1>3 DEF n
  <1>6. ASSUME NEW i \in 1 .. m + 1 PROVE c[i] = longer[n - m + i]
    <2>1. CASE i = m + 1
      <3>1. n - m + i = n + 1
        BY <1>2, <1>3, <2>1
      <3> QED
        BY <1>2, <1>3, <2>1, <3>1
    <2>2. CASE i # m + 1
      <3>1. i \in 1 .. m /\ n - m + i \in 1 .. n
        BY <1>1, <1>2, <1>3, <1>4, <2>2
      <3> QED
        BY <1>2, <1>3, <1>4, <3>1
    <2> QED
      BY <2>1, <2>2
  <1>7. CASE m = WindowCap
    <2>1. Push(b, x) = SubSeq(c, 2, m + 1)
      BY <1>1, <1>2, <1>7 DEF Push, c
    <2>2. /\ SubSeq(c, 2, m + 1) \in Seq(R) /\ Len(SubSeq(c, 2, m + 1)) = m
          /\ DOMAIN SubSeq(c, 2, m + 1) = 1 .. m
          /\ \A i \in 1 .. m : SubSeq(c, 2, m + 1)[i] = c[i + 1]
      BY <1>1, <1>2, <1>7
    <2>3. ASSUME NEW i \in 1 .. m PROVE SubSeq(c, 2, m + 1)[i] = longer[(n + 1) - m + i]
      <3>1. i + 1 \in 1 .. m + 1 /\ n - m + (i + 1) = (n + 1) - m + i
        BY <1>2, <1>3
      <3> QED
        BY <1>6, <2>2, <3>1
    <2>4. EndOf(SubSeq(c, 2, m + 1), longer)
      <3>1. ~(n + 1 < WindowCap)
        BY <1>1, <1>3, <1>4, <1>7
      <3> QED
        BY <1>3, <1>7, <2>2, <2>3, <3>1 DEF EndOf
    <2> QED
      BY <1>1, <1>3, <1>5, <1>7, <2>1, <2>2, <2>4 DEF longer
  <1>8. CASE m # WindowCap
    <2>1. n < WindowCap /\ m = n
      BY <1>1, <1>3, <1>4, <1>8
    <2>2. Push(b, x) = c
      BY <1>1, <1>2, <1>3, <2>1 DEF Push, c
    <2>3. EndOf(c, longer)
      <3>1. Len(c) = IF n + 1 < WindowCap THEN n + 1 ELSE WindowCap
        BY <1>1, <1>2, <1>3, <2>1
      <3>2. DOMAIN c = 1 .. m + 1 /\ Len(longer) - Len(c) = n - m
        BY <1>2, <1>3
      <3>3. \A i \in DOMAIN c : c[i] = longer[Len(longer) - Len(c) + i]
        BY <1>6, <3>2
      <3> QED
        BY <1>3, <3>1, <3>3 DEF EndOf
    <2> QED
      BY <1>1, <1>2, <1>3, <1>5, <2>1, <2>2, <2>3 DEF longer
  <1> QED
    BY <1>7, <1>8

\* A run of results of one kind at the end of a bucket that can hold it is a
\* run at the end of all results.
LEMMA RunAtEnd ==
    ASSUME NEW R, NEW b \in Seq(R), NEW all \in Seq(R), EndOf(b, all),
           NEW least \in Nat \ {0}, least <= WindowCap, NEW G
    PROVE  EndsWith(b, least, G) <=> HasRun(all, least, G)
  <1> DEFINE n == Len(all)
             m == Len(b)
  <1>1. /\ m \in Nat /\ DOMAIN b = 1 .. m /\ n \in Nat /\ DOMAIN all = 1 .. n
        /\ WindowCap \in Nat
    BY WindowAssumption
  <1>2. m = (IF n < WindowCap THEN n ELSE WindowCap) /\ \A i \in 1 .. m : b[i] = all[n - m + i]
    BY <1>1 DEF EndOf
  <1> HIDE DEF n, m
  <1>3. ASSUME m >= least, \A i \in m - least + 1 .. m : b[i] \in G
        PROVE  \E i \in 1 .. n : n - i + 1 >= least /\ \A j \in i .. n : all[j] \in G
    <2>1. n - least + 1 \in 1 .. n /\ n - (n - least + 1) + 1 >= least
      BY <1>1, <1>2, <1>3
    <2>2. ASSUME NEW j \in n - least + 1 .. n PROVE all[j] \in G
      <3>1. j - (n - m) \in m - least + 1 .. m /\ j - (n - m) \in 1 .. m
            /\ n - m + (j - (n - m)) = j
        BY <1>1, <1>3
      <3> QED
        BY <1>2, <1>3, <3>1
    <2> QED
      BY <2>1, <2>2
  <1>4. ASSUME NEW i \in 1 .. n, n - i + 1 >= least, \A j \in i .. n : all[j] \in G
        PROVE  m >= least /\ \A k \in m - least + 1 .. m : b[k] \in G
    <2>1. m >= least
      BY <1>1, <1>2, <1>4
    <2>2. ASSUME NEW k \in m - least + 1 .. m PROVE b[k] \in G
      <3>1. k \in 1 .. m /\ n - m + k \in i .. n
        BY <1>1, <1>2, <1>4, <2>1
      <3> QED
        BY <1>2, <1>4, <3>1
    <2> QED
      BY <2>1, <2>2
  <1> QED
    BY <1>1, <1>3, <1>4 DEF n, m, EndsWith, HasRun

\* Two sets between which there is a bijection are of one size.
LEMMA SameCount ==
    ASSUME NEW S, NEW T, NEW f \in [S -> T], IsFiniteSet(S),
           \A a, b \in S : f[a] = f[b] => a = b,
           \A y \in T : \E a \in S : f[a] = y
    PROVE  IsFiniteSet(T) /\ Cardinality(T) = Cardinality(S)
  <1>1. f \in Bijection(S, T)
    BY Fun_IsBij
  <1>2. ExistsBijection(S, T)
    BY <1>1 DEF ExistsBijection
  <1> QED
    BY <1>2, FS_Bijection

\* A bucket holds as many results of a kind as there are, when those it has
\* dropped are of another.
LEMMA SameKind ==
    ASSUME NEW R, NEW b \in Seq(R), NEW all \in Seq(R), EndOf(b, all), NEW G,
           \A i \in DOMAIN all : i + WindowCap <= Len(all) => all[i] \notin G
    PROVE  /\ IsFiniteSet(Kind(b, G)) /\ Cardinality(Kind(b, G)) \in Nat
           /\ Cardinality(Kind(all, G)) = Cardinality(Kind(b, G))
  <1> DEFINE n == Len(all)
             m == Len(b)
             B == {i \in DOMAIN b : b[i] \in G}
             A == {i \in DOMAIN all : all[i] \in G}
             f == [i \in B |-> n - m + i]
  <1>1. /\ m \in Nat /\ DOMAIN b = 1 .. m /\ n \in Nat /\ DOMAIN all = 1 .. n
        /\ WindowCap \in Nat
    BY WindowAssumption
  <1>2. m = (IF n < WindowCap THEN n ELSE WindowCap) /\ \A i \in 1 .. m : b[i] = all[n - m + i]
    BY <1>1 DEF EndOf
  <1>3. IsFiniteSet(B) /\ Cardinality(B) \in Nat
    <2>1. IsFiniteSet(DOMAIN b)
      BY <1>1, FS_Interval
    <2> QED
      BY <2>1, FS_Subset, FS_CardinalityType
  <1> HIDE DEF n, m
  <1>4. f \in [B -> A]
    <2>1. ASSUME NEW i \in B PROVE n - m + i \in A
      <3>1. i \in 1 .. m /\ n - m + i \in 1 .. n
        BY <1>1, <1>2
      <3> QED
        BY <1>1, <1>2, <3>1
    <2> QED
      BY <2>1
  <1>5. \A i, j \in B : f[i] = f[j] => i = j
    <2>1. \A i \in B : i \in Nat
      BY <1>1
    <2> QED
      BY <1>1, <2>1
  <1>6. ASSUME NEW j \in A PROVE \E i \in B : f[i] = j
    <2>1. j \in 1 .. n /\ all[j] \in G
      BY <1>1
    <2>2. ~(j + WindowCap <= n)
      BY <2>1 DEF n
    <2>3. j - (n - m) \in 1 .. m /\ n - m + (j - (n - m)) = j
      BY <1>1, <1>2, <2>1, <2>2
    <2>4. j - (n - m) \in B
      BY <1>1, <1>2, <2>1, <2>3
    <2> QED
      BY <2>3, <2>4
  <1> HIDE DEF A, B, f
  <1>7. Cardinality(A) = Cardinality(B)
    BY <1>3, <1>4, <1>5, <1>6, SameCount
  <1> QED
    BY <1>3, <1>7 DEF A, B, Kind

\* What Validate says of a rule, and of the results.
LEMMA RuleType ==
    ASSUME NEW r \in Rule
    PROVE  /\ r.threshold \in Nat \ {0} /\ r.span \in Nat /\ r.cooldown \in Nat
           /\ r.type \in {"consecutive_status", "consecutive_error_type", "error_rate_window"}
           /\ r.type = "error_rate_window" => r.span > 0
  BY EvaluatorAssumption DEF Validate

LEMMA ResultType ==
    ASSUME NEW all \in Seq(Result), NEW i \in DOMAIN all
    PROVE  all[i] \in Result /\ all[i].at \in Nat /\ all[i].status \in {"up", "down"}
  <1>1. all[i] \in Result
    OBVIOUS
  <1>2. \A x \in Result : x.at \in Nat
    BY EvaluatorAssumption DEF Result, Time
  <1>3. \A x \in Result : x.status \in {"up", "down"}
    BY EvaluatorAssumption DEF Result
  <1> QED
    BY <1>1, <1>2, <1>3

\* A consecutive rule matches on a bucket when all results deserve it.
LEMMA ConsecutiveMatches ==
    ASSUME NEW r \in Rule, NEW b \in Seq(Result), NEW all \in Seq(Result), EndOf(b, all),
           r.type # "error_rate_window", Covered(r, all)
    PROVE  Match(r, b, now) <=> Deserved(r, all)
  <1>1. r.threshold \in Nat \ {0} /\ r.threshold <= WindowCap
    BY RuleType DEF Covered
  <1>2. CASE r.type = "consecutive_status"
    <2> DEFINE G == {x \in Result : x.status = r.wanted}
    <2>1. /\ \A i \in DOMAIN b : b[i] \in G <=> b[i].status = r.wanted
          /\ \A i \in DOMAIN all : all[i] \in G <=> all[i].status = r.wanted
      BY ResultType
    <2>2. Match(r, b, now) <=> EndsWith(b, r.threshold, G)
      BY <1>1, <1>2, <2>1 DEF Match, ConsecutiveStatus, EndsWith
    <2>3. Deserved(r, all) <=> HasRun(all, r.threshold, G)
      BY <1>2, <2>1 DEF Deserved, HasRun
    <2> HIDE DEF G
    <2> QED
      BY <1>1, <2>2, <2>3, RunAtEnd
  <1>3. CASE r.type = "consecutive_error_type"
    <2> DEFINE G == {x \in Result : x.errorType = r.wanted}
    <2>1. /\ \A i \in DOMAIN b : b[i] \in G <=> b[i].errorType = r.wanted
          /\ \A i \in DOMAIN all : all[i] \in G <=> all[i].errorType = r.wanted
      BY ResultType
    <2>2. Match(r, b, now) <=> EndsWith(b, r.threshold, G)
      BY <1>1, <1>3, <2>1 DEF Match, ConsecutiveErrorType, EndsWith
    <2>3. Deserved(r, all) <=> HasRun(all, r.threshold, G)
      BY <1>3, <2>1 DEF Deserved, HasRun
    <2> HIDE DEF G
    <2> QED
      BY <1>1, <2>2, <2>3, RunAtEnd
  <1> QED
    BY <1>2, <1>3, RuleType

\* Whole percents, rounded down, reach a whole threshold when the fraction does.
LEMMA Percents ==
    ASSUME NEW e \in Nat, NEW c \in Nat \ {0}, NEW least \in Nat
    PROVE  (e * 100) \div c >= least <=> e * 100 >= least * c
  OBVIOUS

\* The rule about a rate matches on a bucket when all results deserve it.
LEMMA RateMatches ==
    ASSUME NEW r \in Rule, NEW b \in Seq(Result), NEW all \in Seq(Result), EndOf(b, all),
           now \in Time, r.type = "error_rate_window", Covered(r, all)
    PROVE  Match(r, b, now) <=> Deserved(r, all)
  <1> DEFINE In    == {x \in Result : now - x.at <= r.span}
             Bad   == {x \in Result : now - x.at <= r.span /\ x.status = "down"}
             count == Cardinality(Kind(b, In))
             bads  == Cardinality(Kind(b, Bad))
  <1>1. now \in Nat /\ r.threshold \in Nat \ {0} /\ r.span \in Nat /\ r.span > 0
    BY RuleType, EvaluatorAssumption DEF Time
  <1>2. /\ \A i \in DOMAIN all : i + WindowCap <= Len(all) => all[i] \notin In
        /\ \A i \in DOMAIN all : i + WindowCap <= Len(all) => all[i] \notin Bad
    BY r.type = "error_rate_window", <1>1, ResultType DEF Covered
  <1>3. IsFiniteSet(Kind(b, In)) /\ count \in Nat /\ Cardinality(Kind(all, In)) = count
    BY <1>2, SameKind
  <1>4. bads \in Nat /\ Cardinality(Kind(all, Bad)) = bads
    BY <1>2, SameKind
  <1>5. Deserved(r, all) <=> count > 0 /\ bads * 100 >= r.threshold * count
    <2>1. Kind(all, In) = {i \in DOMAIN all : now - all[i].at <= r.span /\ TRUE}
      BY ResultType DEF Kind
    <2>2. Kind(all, Bad)
             = {i \in DOMAIN all : now - all[i].at <= r.span /\ all[i].status = "down"}
      BY ResultType DEF Kind
    <2> QED
      BY r.type = "error_rate_window", <1>3, <1>4, <2>1, <2>2 DEF Deserved
  <1>6. Match(r, b, now) <=> count # 0 /\ (bads * 100) \div count >= r.threshold
    <2> DEFINE counted == {i \in DOMAIN b : b[i].at + r.span >= now}
    <2>1. Kind(b, In) = counted
      BY <1>1, ResultType DEF Kind
    <2>2. Kind(b, Bad) = {i \in counted : b[i].status # "up"}
      BY <1>1, ResultType DEF Kind
    <2>3. counted = {} <=> count = 0
      BY <1>3, <2>1, FS_EmptySet
    <2>4. /\ count = Cardinality(counted)
          /\ bads = Cardinality({i \in counted : b[i].status # "up"})
      BY <2>1, <2>2, Zenon
    <2> HIDE DEF counted, count, bads
    <2>5. Match(r, b, now) <=>
              counted # {} /\ (bads * 100) \div count >= r.threshold
      BY r.type = "error_rate_window", <1>1, <2>4 DEF Match, ErrorRateWindow, counted
    <2> QED
      BY <2>3, <2>5
  <1> HIDE DEF count, bads
  <1>7. count # 0 => ((bads * 100) \div count >= r.threshold <=> bads * 100 >= r.threshold * count)
    BY <1>1, <1>3, <1>4, Percents
  <1> QED
    BY <1>3, <1>5, <1>6, <1>7

\* A rule whose results the bucket holds matches on the bucket when all the
\* results of the target deserve it.
LEMMA MatchesDeserved ==
    ASSUME NEW r \in Rule, NEW b \in Seq(Result), NEW all \in Seq(Result), EndOf(b, all),
           now \in Time, Covered(r, all)
    PROVE  Match(r, b, now) <=> Deserved(r, all)
  BY ConsecutiveMatches, RateMatches

-----------------------------------------------------------------------------
\* Nothing evaluated, nothing fired.
LEMMA InvInit == Init => Inv
  <1> SUFFICES ASSUME Init PROVE Inv
    OBVIOUS
  <1>1. WindowCap \in Nat \ {0} /\ <<>> \in Seq(Result) /\ Len(<<>>) = 0 /\ DOMAIN <<>> = {}
    BY WindowAssumption
  <1>2. TypeOK
    BY <1>1, EvaluatorAssumption DEF Init, TypeOK, Time, Stamps
  <1>3. EndOf(<<>>, <<>>)
    BY <1>1 DEF EndOf
  <1>4. WindowInv /\ MemoryInv
    BY <1>3 DEF Init, WindowInv, MemoryInv
  <1> QED
    BY <1>2, <1>4 DEF Inv

\* Evaluating a result, in parts: the result, and what it fires.
LEMMA EvaluateParts ==
    ASSUME Inv, NEW t \in Target, Evaluate(t)
    PROVE  \E result \in Result :
              LET bucket == Push(window[t], result)
                  all    == Append(log[t], result)
              IN  /\ window' = [window EXCEPT ![t] = bucket]
                  /\ log' = [log EXCEPT ![t] = all]
                  /\ now' = now /\ now \in Time
                  /\ bucket \in Seq(Result) /\ Len(bucket) <= WindowCap
                  /\ all \in Seq(Result) /\ all # log[t] /\ EndOf(bucket, all)
                  /\ fired' = {k \in Rule \X Target :
                                 /\ k[2] = t /\ Applies(k[1], t)
                                 /\ Match(k[1], bucket, now) /\ Allowed(k[1], t)}
                  /\ lastFired' = [k \in Rule \X Target |->
                                     IF k \in fired' /\ k[1].cooldown > 0
                                     THEN now ELSE lastFired[k]]
                  /\ alerts' = [k \in Rule \X Target |-> IF k \in fired' THEN now ELSE alerts[k]]
  <1>1. PICK o \in Outcome, lag \in 0 .. MaxLag :
            /\ lag < now
            /\ OnResult(t, [status |-> o.status, errorType |-> o.errorType, at |-> now - lag])
    BY DEF Evaluate
  <1>2. PICK result : result = [status |-> o.status, errorType |-> o.errorType, at |-> now - lag]
    OBVIOUS
  <1>3. result \in Result
    <2>1. now - lag \in Time
      BY <1>1, EvaluatorAssumption DEF Inv, TypeOK, Time
    <2> QED
      BY <1>2, <2>1 DEF Result
  <1>4. /\ window[t] \in Seq(Result) /\ log[t] \in Seq(Result) /\ EndOf(window[t], log[t])
        /\ now \in Time
    BY DEF Inv, TypeOK, WindowInv
  <1> DEFINE bucket  == Push(window[t], result)
             hits    == {r \in Rule : Applies(r, t) /\ Match(r, bucket, now)} \X {t}
             allowed == {k \in hits : Allowed(k[1], t)}
             shown   == {k \in Rule \X Target : /\ k[2] = t /\ Applies(k[1], t)
                                                /\ Match(k[1], bucket, now) /\ Allowed(k[1], t)}
  <1>5. /\ bucket \in Seq(Result) /\ Len(bucket) <= WindowCap
        /\ Append(log[t], result) \in Seq(Result) /\ Append(log[t], result) # log[t]
        /\ EndOf(bucket, Append(log[t], result))
    BY <1>3, <1>4, PushEnd
  <1>6. /\ window' = [window EXCEPT ![t] = bucket] /\ lastFired' = Remember(hits, allowed)
        /\ fired' = allowed /\ now' = now
        /\ alerts' = [k \in Rule \X Target |-> IF k \in allowed THEN now ELSE alerts[k]]
        /\ log' = [log EXCEPT ![t] = Append(@, result)]
    BY <1>1, <1>2 DEF OnResult
  <1> HIDE DEF bucket
  <1>7. allowed = shown
    OBVIOUS
  <1>8. log' = [log EXCEPT ![t] = Append(log[t], result)]
    BY <1>6
  <1> HIDE DEF hits, allowed
  <1>9. lastFired' = [k \in Rule \X Target |->
                        IF k \in fired' /\ k[1].cooldown > 0 THEN now ELSE lastFired[k]]
    BY <1>6 DEF Remember
  <1>10. alerts' = [k \in Rule \X Target |-> IF k \in fired' THEN now ELSE alerts[k]]
    BY <1>6
  <1>11. fired' = shown
    BY <1>6, <1>7
  <1> QED
    BY <1>3, <1>4, <1>5, <1>6, <1>8, <1>9, <1>10, <1>11 DEF bucket

\* Every step keeps the invariant.
LEMMA InvStep == Inv /\ [Next]_vars => Inv'
  <1> SUFFICES ASSUME Inv, [Next]_vars PROVE Inv'
    OBVIOUS
  <1>1. CASE Tick
    <2>1. now' \in Time /\ UNCHANGED <<window, lastFired, log, alerts, fired>>
      BY <1>1, EvaluatorAssumption DEF Tick, Inv, TypeOK, Time
    <2> QED
      BY <2>1 DEF Inv, TypeOK, WindowInv, MemoryInv
  <1>2. ASSUME NEW t \in Target, Evaluate(t) PROVE Inv'
    <2>1. PICK b \in Seq(Result), all \in Seq(Result) :
              /\ window' = [window EXCEPT ![t] = b] /\ log' = [log EXCEPT ![t] = all]
              /\ now' = now /\ now \in Time
              /\ Len(b) <= WindowCap /\ EndOf(b, all)
              /\ fired' \subseteq Rule \X Target
              /\ lastFired' = [k \in Rule \X Target |->
                                 IF k \in fired' /\ k[1].cooldown > 0
                                 THEN now ELSE lastFired[k]]
              /\ alerts' = [k \in Rule \X Target |-> IF k \in fired' THEN now ELSE alerts[k]]
      BY <1>2, EvaluateParts
    <2>2. lastFired' \in Stamps /\ alerts' \in Stamps
      BY <2>1 DEF Inv, TypeOK, Stamps
    <2>3. TypeOK'
      BY <2>1, <2>2 DEF Inv, TypeOK
    <2>4. WindowInv'
      <3>1. ASSUME NEW u \in Target PROVE EndOf(window'[u], log'[u])
        BY <2>1 DEF Inv, TypeOK, WindowInv
      <3> QED
        BY <3>1 DEF WindowInv, EndOf
    <2>5. MemoryInv'
      BY <2>1 DEF Inv, MemoryInv
    <2> QED
      BY <2>3, <2>4, <2>5 DEF Inv
  <1>3. CASE UNCHANGED vars
    BY <1>3 DEF vars, Inv, TypeOK, WindowInv, MemoryInv
  <1> QED
    BY <1>1, <1>2, <1>3 DEF Next

\* The inductive invariant holds in every reachable state.
THEOREM InvCorrect == Spec => []Inv
  <1> QED
    BY InvInit, InvStep, PTL DEF Spec

\* The variables keep their types: in particular no bucket outgrows the window.
THEOREM TypeCorrect == Spec => []TypeOK
  <1>1. Inv => TypeOK
    BY DEF Inv
  <1> QED
    BY <1>1, InvCorrect, PTL

\* No rule fires that all the results of the target do not justify.
THEOREM AlarmsDeserved == Spec => NoFalseAlarm
  <1>1. ASSUME Inv, Next, NEW t \in Target, log'[t] # log[t], NEW k \in fired'
        PROVE  k[2] = t /\ (Covered(k[1], log'[t]) => Deserved(k[1], log'[t]))
    <2>1. PICK u \in Target : Evaluate(u)
      BY <1>1 DEF Next, Tick
    <2>2. PICK b \in Seq(Result), all \in Seq(Result) :
              /\ log' = [log EXCEPT ![u] = all] /\ now \in Time /\ EndOf(b, all)
              /\ fired' = {key \in Rule \X Target :
                             /\ key[2] = u /\ Applies(key[1], u)
                             /\ Match(key[1], b, now) /\ Allowed(key[1], u)}
      BY <1>1, <2>1, EvaluateParts
    <2>3. t = u /\ log'[t] = all
      BY <1>1, <2>2 DEF Inv, TypeOK
    <2>4. k[1] \in Rule /\ k[2] = u /\ Match(k[1], b, now)
      BY <1>1, <2>2
    <2>5. Covered(k[1], all) => Deserved(k[1], all)
      BY <2>2, <2>4, MatchesDeserved
    <2> QED
      BY <2>3, <2>4, <2>5
  <1>2. Inv /\ [Next]_vars =>
            [\A t \in Target : log'[t] # log[t] =>
                \A k \in fired' : k[2] = t /\ (Covered(k[1], log'[t]) => Deserved(k[1], log'[t]))]_vars
    BY <1>1
  <1> QED
    BY InvCorrect, <1>2, PTL DEF Spec, NoFalseAlarm

\* A rule justified by the results of the target fires, unless it has done so
\* less than its cooldown ago.
THEOREM AlarmsRaised == Spec => NoMissedAlarm
  <1>1. ASSUME Inv, Next, NEW t \in Target, NEW r \in Rule,
               log'[t] # log[t], Applies(r, t), Covered(r, log'[t]), Deserved(r, log'[t]),
               alerts[<<r, t>>] = Never \/ now - alerts[<<r, t>>] >= r.cooldown
        PROVE  <<r, t>> \in fired'
    <2>1. PICK u \in Target : Evaluate(u)
      BY <1>1 DEF Next, Tick
    <2>2. PICK b \in Seq(Result), all \in Seq(Result) :
              /\ log' = [log EXCEPT ![u] = all] /\ now \in Time /\ EndOf(b, all)
              /\ fired' = {k \in Rule \X Target :
                             /\ k[2] = u /\ Applies(k[1], u)
                             /\ Match(k[1], b, now) /\ Allowed(k[1], u)}
      BY <1>1, <2>1, EvaluateParts
    <2>3. t = u /\ log'[t] = all
      BY <1>1, <2>2 DEF Inv, TypeOK
    <2>4. Match(r, b, now)
      BY <1>1, <2>2, <2>3, MatchesDeserved
    <2>5. Allowed(r, t)
      <3>1. r.cooldown \in Nat
        BY RuleType
      <3>2. r.cooldown > 0 => lastFired[<<r, t>>] = alerts[<<r, t>>]
        BY <1>1 DEF Inv, MemoryInv
      <3> QED
        BY <1>1, <3>1, <3>2 DEF Allowed
    <2> QED
      BY <1>1, <2>2, <2>3, <2>4, <2>5
  <1>2. Inv /\ [Next]_vars =>
            [\A t \in Target, r \in Rule :
                /\ log'[t] # log[t]
                /\ Applies(r, t) /\ Covered(r, log'[t]) /\ Deserved(r, log'[t])
                /\ alerts[<<r, t>>] = Never \/ now - alerts[<<r, t>>] >= r.cooldown
                => <<r, t>> \in fired']_vars
    BY <1>1
  <1> QED
    BY InvCorrect, <1>2, PTL DEF Spec, NoMissedAlarm
=============================================================================
