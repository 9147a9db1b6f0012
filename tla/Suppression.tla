---------------------------- MODULE Suppression ----------------------------
(***************************************************************************)
(* The cooldown of alerts (internal/alert/suppressor.go, and the part of   *)
(* evaluator.go and main.go that uses it).  Every process remembers when   *)
(* it last fired each (rule, target) key, tells etcd in the background,    *)
(* and fills its memory from etcd when it becomes leader.                  *)
(*                                                                         *)
(* Leadership is taken as Leader.tla leaves it: a new leader may start     *)
(* while the pool of an old one, in the same process or in another, still  *)
(* evaluates its last results (zombie).  Whether a rule matches is left    *)
(* to chance: Matchers.tla says when it does.                              *)
(***************************************************************************)
EXTENDS Naturals, FiniteSets

CONSTANTS Node,       \* the gowatch processes
          Key,        \* rule:target
          Cooldown,   \* [Key -> Nat], in units of time
          MaxTime     \* BOUND: the clock stops there

ASSUME SuppressionAssumption == Cooldown \in [Key -> Nat] /\ MaxTime \in Nat \ {0}

Time  == 1 .. MaxTime
Never == 0

VARIABLES
    now,
    stored,     \* etcd: the last firing of a key, under /gowatch/suppressor/
    puts,       \* background writes to etcd that have not ended
    role,       \* what onLeader is doing in a process
    read,       \* what a starting leader has read from etcd
    zombie,     \* an old pool of the process still evaluates results
    lastFired,  \* Suppressor.lastFired of a process
    \* history
    lastAlert,  \* the last alert fired by anyone
    disorder,   \* a leader has started beside another leader or a zombie, while
                \* a write was on its way to etcd, or without reading etcd
    lost        \* a write has not reached etcd

vars == <<now, stored, puts, role, read, zombie, lastFired, lastAlert, disorder, lost>>

Put == [node : Node, key : Key, at : Time]
Stamps == [Key -> Time \cup {Never}]

TypeOK ==
    /\ now \in Time
    /\ stored \in Stamps
    /\ puts \subseteq Put
    /\ role \in [Node -> {"follower", "loading", "read", "serving"}]
    /\ read \in [Node -> Stamps]
    /\ zombie \in [Node -> BOOLEAN]
    /\ lastFired \in [Node -> Stamps]
    /\ lastAlert \in Stamps
    /\ disorder \in BOOLEAN /\ lost \in BOOLEAN

Nothing == [k \in Key |-> Never]

Init ==
    /\ now = 1
    /\ stored = Nothing
    /\ puts = {}
    /\ role = [n \in Node |-> "follower"]
    /\ read = [n \in Node |-> Nothing]
    /\ zombie = [n \in Node |-> FALSE]
    /\ lastFired = [n \in Node |-> Nothing]
    /\ lastAlert = Nothing
    /\ disorder = FALSE /\ lost = FALSE

-----------------------------------------------------------------------------
(* A term: onLeader fills the suppressor from etcd, then runs the pool     *)

Elect(n) ==
    /\ role[n] = "follower"
    /\ role' = [role EXCEPT ![n] = "loading"]
    /\ disorder' = (disorder \/ \E m \in Node : zombie[m] \/ role[m] # "follower")
    /\ UNCHANGED <<now, stored, puts, read, zombie, lastFired, lastAlert, lost>>

\* LoadFromEtcd, the Get.
LoadRead(n) ==
    /\ role[n] = "loading"
    /\ role' = [role EXCEPT ![n] = "read"]
    /\ read' = [read EXCEPT ![n] = stored]
    /\ disorder' = (disorder \/ puts # {})
    /\ UNCHANGED <<now, stored, puts, zombie, lastFired, lastAlert, lost>>

\* LoadFromEtcd, the loop: every key found replaces what memory knows of it.
Merge(memory, found) == [k \in Key |-> IF found[k] # Never THEN found[k] ELSE memory[k]]

LoadApply(n) ==
    /\ role[n] = "read"
    /\ role' = [role EXCEPT ![n] = "serving"]
    /\ lastFired' = [lastFired EXCEPT ![n] = Merge(@, read[n])]
    /\ read' = [read EXCEPT ![n] = Nothing]
    /\ UNCHANGED <<now, stored, puts, zombie, lastAlert, disorder, lost>>

\* The Get fails or takes longer than 5s: the pool runs all the same.
LoadFailed(n) ==
    /\ role[n] = "loading"
    /\ role' = [role EXCEPT ![n] = "serving"]
    /\ disorder' = TRUE
    /\ UNCHANGED <<now, stored, puts, read, zombie, lastFired, lastAlert, lost>>

\* The term is over; the pool still works through what it has.
Demote(n) ==
    /\ role[n] = "serving"
    /\ role' = [role EXCEPT ![n] = "follower"]
    /\ zombie' = [zombie EXCEPT ![n] = TRUE]
    /\ UNCHANGED <<now, stored, puts, read, lastFired, lastAlert, disorder, lost>>

PoolStopped(n) ==
    /\ zombie[n]
    /\ zombie' = [zombie EXCEPT ![n] = FALSE]
    /\ UNCHANGED <<now, stored, puts, role, read, lastFired, lastAlert, disorder, lost>>

\* The process is replaced by a new one, whose memory is empty.
Restart(n) ==
    /\ role' = [role EXCEPT ![n] = "follower"]
    /\ read' = [read EXCEPT ![n] = Nothing]
    /\ zombie' = [zombie EXCEPT ![n] = FALSE]
    /\ lastFired' = [lastFired EXCEPT ![n] = Nothing]
    /\ UNCHANGED <<now, stored, puts, lastAlert, disorder, lost>>

-----------------------------------------------------------------------------
(* OnResult, for a rule that matches                                       *)

\* Suppressor.Allow, under its lock.
Allowed(n, k) ==
    \/ Cooldown[k] = 0
    \/ lastFired[n][k] = Never
    \/ now - lastFired[n][k] >= Cooldown[k]

\* Mutant of Fire: memory keeps when the key may fire again, not when it fired.
Fire_Deadline(n, k) ==
    /\ zombie[n] \/ role[n] = "serving"
    /\ Allowed(n, k)
    /\ lastFired' = [lastFired EXCEPT ![n][k] = now + Cooldown[k]]
    /\ puts' = puts \cup {[node |-> n, key |-> k, at |-> now]}
    /\ lastAlert' = [lastAlert EXCEPT ![k] = now]
    /\ UNCHANGED <<now, stored, role, read, zombie, disorder, lost>>

\* AllowAndPersist says yes: memory is updated (but for a rule without
\* cooldown), a goroutine starts to write to etcd, and the alert goes out.
Fire(n, k) ==
    /\ zombie[n] \/ role[n] = "serving"
    /\ Allowed(n, k)
    /\ lastFired' = [lastFired EXCEPT ![n][k] = IF Cooldown[k] = 0 THEN @ ELSE now]
    /\ puts' = puts \cup {[node |-> n, key |-> k, at |-> now]}
    /\ lastAlert' = [lastAlert EXCEPT ![k] = now]
    /\ UNCHANGED <<now, stored, role, read, zombie, disorder, lost>>

\* Mutant of PutLands: the write is acknowledged and not kept.
PutLands_NotKept(p) ==
    /\ puts' = puts \ {p}
    /\ UNCHANGED <<now, stored, role, read, zombie, lastFired, lastAlert, disorder, lost>>

PutLands(p) ==
    /\ stored' = [stored EXCEPT ![p.key] = p.at]
    /\ puts' = puts \ {p}
    /\ UNCHANGED <<now, role, read, zombie, lastFired, lastAlert, disorder, lost>>

\* The write fails: OnResult cancels the context of the write as
\* soon as AllowAndPersist has returned, whether etcd is well or not.
PutLost(p) ==
    /\ puts' = puts \ {p}
    /\ lost' = TRUE
    /\ UNCHANGED <<now, stored, role, read, zombie, lastFired, lastAlert, disorder>>

\* A write ends within its 2s, which is less than a unit of time.
Tick ==
    /\ now < MaxTime
    /\ puts = {}
    /\ now' = now + 1
    /\ UNCHANGED <<stored, puts, role, read, zombie, lastFired, lastAlert, disorder, lost>>

-----------------------------------------------------------------------------
Next ==
    \/ \E n \in Node : \/ Elect(n) \/ LoadRead(n) \/ LoadApply(n) \/ LoadFailed(n)
                       \/ Demote(n) \/ PoolStopped(n) \/ Restart(n)
                       \/ \E k \in Key : Fire(n, k)
    \/ \E p \in puts : PutLands(p) \/ PutLost(p)
    \/ Tick

Spec == Init /\ [][Next]_vars

-----------------------------------------------------------------------------
(* Properties                                                              *)

Spaced(last, k) == last = Never \/ now - last >= Cooldown[k]

\* Alerts of a key are a cooldown apart, across the terms of a process, across
\* processes and restarts, as long as no write to etcd fails and every leader starts
\* alone, after the last write has ended, by reading etcd.
SpacedAcrossTerms ==
    [][\A n \in Node, k \in Key :
        Fire(n, k) /\ ~disorder /\ ~lost => Spaced(lastAlert[k], k)]_vars
=============================================================================
