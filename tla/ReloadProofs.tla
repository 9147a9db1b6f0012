---------------------------- MODULE ReloadProofs ----------------------------
(***************************************************************************)
(* Proofs about Reload: its types, and that the pool never goes back to an *)
(* older configuration while callbacks come one at a time, for any number  *)
(* of edits.                                                               *)
(***************************************************************************)
EXTENDS Reload, SequenceTheorems, TLAPS

\* No more events wait than edits were made.
EventsInv == events <= file.version

\* Neither the pool nor a channel holds a configuration younger than v.
NoneAbove(v) ==
    /\ targets <= v
    /\ poolCh # <<>> => poolCh[1] <= v
    /\ mainCh # <<>> => mainCh[1] <= v

\* On the way from the file to the pool, the configurations grow older.
OrderInv ==
    ~overlap =>
        /\ \A c, d \in callbacks : c = d
        /\ NoneAbove(file.version)
        /\ \A c \in callbacks : c.pc = "send" => NoneAbove(c.cfg) /\ c.cfg <= file.version
        /\ mainCh # <<>> => targets <= mainCh[1] /\ (poolCh # <<>> => poolCh[1] <= mainCh[1])
        /\ poolCh # <<>> => targets <= poolCh[1]

IInv == TypeOK /\ EventsInv /\ OrderInv

-----------------------------------------------------------------------------
\* A channel of one is empty, or holds one configuration and none after it.
LEMMA OneSlot ==
    ASSUME NEW q \in Seq(Version), Len(q) <= 1
    PROVE  \/ q = <<>>
           \/ q # <<>> /\ Head(q) = q[1] /\ q[1] \in Version /\ Tail(q) = <<>>
<1>1. CASE q # <<>>
  <2>1. Len(q) = 1 /\ Head(q) = q[1] /\ q[1] \in Version
    BY <1>1
  <2>2. Tail(q) \in Seq(Version) /\ Len(Tail(q)) = 0
    BY <1>1, <2>1
  <2>3. Tail(q) = <<>>
    BY <2>2, EmptySeq
  <2>. QED  BY <1>1, <2>1, <2>3
<1>. QED  BY <1>1

\* What a channel holds after one configuration was put into it.
LEMMA Single ==
    ASSUME NEW v \in Version
    PROVE  <<v>> \in Seq(Version) /\ Len(<<v>>) = 1 /\ <<v>> # <<>> /\ <<v>>[1] = v
OBVIOUS

\* The process starts with the file it has loaded, and nothing on its way.
LEMMA InitOK == Init => IInv
<1>. SUFFICES ASSUME Init PROVE IInv
  OBVIOUS
<1>1. 0 \in Version /\ <<>> \in Seq(Version) /\ Len(<<>>) = 0
  BY ReloadAssumption DEF Version
<1>2. TypeOK
  <2>1. file \in [version : Version, good : BOOLEAN]
    BY <1>1 DEF Init
  <2>2. /\ watching \in {"no", "yes", "stopped"} /\ armed \in BOOLEAN /\ callbacks \subseteq Callback
        /\ ctxDone \in BOOLEAN /\ overlap \in BOOLEAN /\ missed \in BOOLEAN
    BY Zenon DEF Init
  <2>3. /\ mainCh \in Seq(Version) /\ Len(mainCh) <= 1 /\ poolCh \in Seq(Version) /\ Len(poolCh) <= 1
        /\ events \in Version /\ targets \in Version
    BY <1>1 DEF Init
  <2>. QED  BY <2>1, <2>2, <2>3 DEF TypeOK
<1>3. EventsInv /\ OrderInv
  BY DEF Init, EventsInv, OrderInv, NoneAbove
<1>. QED  BY <1>2, <1>3 DEF IInv

\* The cases of a step, for the proofs that go through them.
LEMMA StepCases ==
    ASSUME [Next]_vars
    PROVE  \/ Edit \/ Watch \/ Event \/ WatcherStops \/ TimerFires
           \/ \E c \in callbacks : Load(c) \/ Send(c)
           \/ Forward \/ Apply \/ Cancel \/ UNCHANGED vars
BY DEF Next

\* Every step keeps the types; an edit and its event are counted together.
LEMMA TypeStep == TypeOK /\ EventsInv /\ [Next]_vars => TypeOK' /\ EventsInv'
<1>. SUFFICES ASSUME TypeOK, EventsInv, [Next]_vars PROVE TypeOK' /\ EventsInv'
  OBVIOUS
<1>. USE DEF TypeOK, EventsInv
<1>0. /\ MaxEdits \in Nat /\ \A v \in Version : v \in Nat
      /\ <<>> \in Seq(Version) /\ Len(<<>>) = 0
  BY ReloadAssumption DEF Version
<1>1. CASE Edit
  <2>1. file' \in [version : Version, good : BOOLEAN] /\ file'.version = file.version + 1
    BY <1>1, <1>0 DEF Edit, Version
  <2>2. events' \in Version /\ events' <= file'.version
    BY <1>1, <1>0, <2>1 DEF Edit, Version
  <2>. QED  BY <1>1, <2>1, <2>2 DEF Edit
<1>2. CASE Watch
  BY <1>2 DEF Watch
<1>3. CASE Event
  <2>1. events' \in Version /\ events' <= file.version
    BY <1>3, <1>0 DEF Event, Version
  <2>. QED  BY <1>3, <2>1 DEF Event
<1>4. CASE WatcherStops
  BY <1>4 DEF WatcherStops
<1>5. CASE TimerFires
  <2>1. callbacks' \subseteq Callback
    BY <1>5 DEF TimerFires, Callback
  <2>. QED  BY <1>5, <2>1 DEF TimerFires
<1>6. ASSUME NEW c \in callbacks, Load(c) PROVE TypeOK' /\ EventsInv'
  <2>1. c \in Callback /\ c.start \in Version
    BY <1>6 DEF Load, Callback
  <2>2. callbacks' \subseteq Callback
    BY <1>6, <2>1 DEF Load, Callback
  <2>. QED  BY <1>6, <2>2 DEF Load
<1>7. ASSUME NEW c \in callbacks, Send(c) PROVE TypeOK' /\ EventsInv'
  <2>1. c \in Callback /\ c.cfg \in Version
    BY <1>7 DEF Send, Callback
  <2>2. mainCh' \in Seq(Version) /\ Len(mainCh') <= 1
    <3>1. CASE mainCh' = <<c.cfg>>
      BY <2>1, <3>1, Single
    <3>2. CASE UNCHANGED mainCh
      BY <3>2
    <3>. QED  BY <1>7, <3>1, <3>2 DEF Send
  <2>3. callbacks' \subseteq Callback
    BY <1>7 DEF Send
  <2>. QED  BY <1>7, <2>2, <2>3 DEF Send
<1>8. CASE Forward
  <2>1. Head(mainCh) \in Version /\ Tail(mainCh) = <<>>
    BY <1>8, OneSlot DEF Forward
  <2>2. poolCh' \in Seq(Version) /\ Len(poolCh') <= 1
    BY <1>8, <2>1, Single DEF Forward, Replace
  <2>. QED  BY <1>0, <1>8, <2>1, <2>2 DEF Forward
<1>9. CASE Apply
  <2>1. Head(poolCh) \in Version /\ Tail(poolCh) = <<>>
    BY <1>9, OneSlot DEF Apply
  <2>. QED  BY <1>0, <1>9, <2>1 DEF Apply
<1>10. CASE Cancel
  BY <1>10 DEF Cancel
<1>11. CASE UNCHANGED vars
  BY <1>11 DEF vars
<1>. QED
  BY <1>1, <1>2, <1>3, <1>4, <1>5, <1>6, <1>7, <1>8, <1>9, <1>10, <1>11, StepCases

\* Every step keeps the order: a configuration is loaded no older than those on
\* their way, and overtakes none of them.
LEMMA OrderStep == TypeOK /\ OrderInv /\ [Next]_vars => OrderInv'
<1>. SUFFICES ASSUME TypeOK, OrderInv, [Next]_vars, ~overlap' PROVE OrderInv'
  BY DEF OrderInv
<1>. USE DEF OrderInv, NoneAbove
<1>0. /\ file.version \in Nat /\ targets \in Nat
      /\ mainCh # <<>> => mainCh[1] \in Nat /\ Head(mainCh) = mainCh[1] /\ Tail(mainCh) = <<>>
      /\ poolCh # <<>> => poolCh[1] \in Nat /\ Head(poolCh) = poolCh[1] /\ Tail(poolCh) = <<>>
      /\ \A c \in callbacks : c.pc = "send" => c.cfg \in Nat
  BY OneSlot, ReloadAssumption DEF TypeOK, Version, Callback
<1>1. CASE Edit
  <2>1. file'.version = file.version + 1
    BY <1>1 DEF Edit
  <2>. QED  BY <1>0, <1>1, <2>1 DEF Edit
<1>2. CASE Watch
  BY <1>2 DEF Watch
<1>3. CASE Event
  BY <1>3 DEF Event
<1>4. CASE WatcherStops
  BY <1>4 DEF WatcherStops
<1>5. CASE TimerFires
  <2>1. ~overlap /\ callbacks' = {[pc |-> "load", start |-> file.version]}
    BY <1>5 DEF TimerFires
  <2>. QED  BY <1>5, <2>1 DEF TimerFires
<1>6. ASSUME NEW c \in callbacks, Load(c) PROVE OrderInv'
  <2>1. callbacks = {c}
    BY <1>6 DEF Load
  <2>2. \/ callbacks' = {}
        \/ callbacks' = {[pc |-> "send", start |-> c.start, cfg |-> file.version]}
    BY <1>6, <2>1 DEF Load
  <2>. QED  BY <1>0, <1>6, <2>2 DEF Load
<1>7. ASSUME NEW c \in callbacks, Send(c) PROVE OrderInv'
  <2>1. callbacks' = {}
    BY <1>7 DEF Send
  <2>2. CASE mainCh = <<>> /\ mainCh' = <<c.cfg>>
    <3>1. mainCh'[1] = c.cfg
      BY <2>2
    <3>. QED  BY <1>0, <1>7, <2>1, <2>2, <3>1 DEF Send
  <2>3. CASE UNCHANGED mainCh
    BY <1>7, <2>1, <2>3 DEF Send
  <2>. QED  BY <1>7, <2>2, <2>3 DEF Send
<1>8. CASE Forward
  <2>1. mainCh' = <<>> /\ poolCh' = <<mainCh[1]>> /\ poolCh'[1] = mainCh[1]
    BY <1>0, <1>8 DEF Forward, Replace
  <2>. QED  BY <1>0, <1>8, <2>1 DEF Forward
<1>9. CASE Apply
  <2>1. poolCh' = <<>> /\ targets' = poolCh[1]
    BY <1>0, <1>9 DEF Apply
  <2>. QED  BY <1>0, <1>9, <2>1 DEF Apply
<1>10. CASE Cancel
  BY <1>10 DEF Cancel
<1>11. CASE UNCHANGED vars
  BY <1>11 DEF vars
<1>. QED
  BY <1>1, <1>2, <1>3, <1>4, <1>5, <1>6, <1>7, <1>8, <1>9, <1>10, <1>11, StepCases

-----------------------------------------------------------------------------
\* The inductive invariant of a reload: types, and the order of configurations.
THEOREM InvCorrect == Spec => []IInv
<1>1. IInv /\ [Next]_vars => IInv'
  BY TypeStep, OrderStep DEF IInv
<1>. QED  BY InitOK, <1>1, PTL DEF Spec

\* The variables keep their types: each of the two channels holds at most one
\* configuration.
THEOREM TypeCorrect == Spec => []TypeOK
<1>1. IInv => TypeOK
  BY DEF IInv
<1>. QED  BY <1>1, InvCorrect, PTL

\* The pool never goes back to an older configuration while callbacks of the
\* watcher's timer come one at a time.
THEOREM Forwards == Spec => NoRollback
<1>1. IInv /\ [Next]_vars => [~overlap => targets' >= targets]_vars
  <2>. SUFFICES ASSUME TypeOK, OrderInv, Next, ~overlap PROVE targets' >= targets
    BY DEF IInv
  <2>0. targets \in Nat
    BY ReloadAssumption DEF TypeOK, Version
  <2>1. CASE Apply
    <3>1. targets' = poolCh[1] /\ poolCh # <<>> /\ poolCh[1] \in Nat
      BY <2>1, OneSlot, ReloadAssumption DEF Apply, TypeOK, Version
    <3>. QED  BY <2>0, <3>1 DEF OrderInv
  <2>2. CASE UNCHANGED targets
    BY <2>0, <2>2
  <2>. QED
    BY <2>1, <2>2 DEF Next, Edit, Watch, Event, WatcherStops, TimerFires, Load, Send, Forward, Cancel
<1>. QED  BY InvCorrect, <1>1, PTL DEF Spec, NoRollback
=============================================================================
