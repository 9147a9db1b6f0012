------------------------------- MODULE Reload -------------------------------
(***************************************************************************)
(* How a change of the configuration file reaches the pool: the watcher    *)
(* debounces the events of the file (internal/config/watcher.go), a        *)
(* callback of its timer loads the file and sends what it holds to main,   *)
(* and main hands it to Pool.Reload.  What Run does with it is in Pool.tla.*)
(*                                                                         *)
(* A configuration is the number of the edit that wrote it.                *)
(***************************************************************************)
EXTENDS Naturals, Sequences, FiniteSets

CONSTANT MaxEdits    \* BOUND: edits of the file

ASSUME ReloadAssumption == MaxEdits \in Nat

VARIABLES
    file,       \* the number of the last edit, and whether it can be loaded
    events,     \* events of the file the watcher has not received
    watching,   \* the watcher: "no" before Watch, then "yes", then "stopped"
    armed,      \* the debounce timer is running
    callbacks,  \* callbacks of the timer under way
    mainCh,     \* reloadCh of main, between the callbacks and main's loop
    poolCh,     \* Pool.reloadCh
    targets,    \* the configuration in force in the pool
    ctxDone,    \* the process has been told to stop
    \* history
    overlap,    \* two callbacks have been under way at a time
    missed      \* the last edit came before the file was watched

vars == <<file, events, watching, armed, callbacks, mainCh, poolCh, targets, ctxDone,
          overlap, missed>>

Version == 0 .. MaxEdits

\* A callback loads the file, then sends the version it has found.  Callbacks of
\* the same version are told apart by the number of the edit they were started at.
Callback == [pc : {"load"}, start : Version] \cup [pc : {"send"}, start : Version, cfg : Version]

TypeOK ==
    /\ file \in [version : Version, good : BOOLEAN]
    /\ events \in Version
    /\ watching \in {"no", "yes", "stopped"}
    /\ armed \in BOOLEAN
    /\ callbacks \subseteq Callback
    /\ mainCh \in Seq(Version) /\ Len(mainCh) <= 1
    /\ poolCh \in Seq(Version) /\ Len(poolCh) <= 1
    /\ targets \in Version
    /\ ctxDone \in BOOLEAN /\ overlap \in BOOLEAN /\ missed \in BOOLEAN

\* main has loaded the file once, and the pool starts with what it found.
Init ==
    /\ file = [version |-> 0, good |-> TRUE]
    /\ events = 0 /\ watching = "no" /\ armed = FALSE
    /\ callbacks = {}
    /\ mainCh = <<>> /\ poolCh = <<>>
    /\ targets = 0
    /\ ctxDone = FALSE /\ overlap = FALSE /\ missed = FALSE

-----------------------------------------------------------------------------
(* The file and its watcher                                                *)

\* A file half written, or not valid, cannot be loaded.
Edit ==
    /\ file.version < MaxEdits
    /\ \E g \in BOOLEAN : file' = [version |-> file.version + 1, good |-> g]
    /\ IF watching = "yes" THEN events' = events + 1 /\ missed' = FALSE
                           ELSE UNCHANGED events /\ missed' = TRUE
    /\ UNCHANGED <<watching, armed, callbacks, mainCh, poolCh, targets, ctxDone, overlap>>

\* Watch, which main calls once it has reached etcd.
Watch ==
    /\ watching = "no"
    /\ watching' = "yes"
    /\ UNCHANGED <<file, events, armed, callbacks, mainCh, poolCh, targets, ctxDone,
                   overlap, missed>>

\* An event stops the timer, unless its callback has started, and starts a new one.
Event ==
    /\ watching = "yes"
    /\ events > 0
    /\ events' = events - 1
    /\ armed' = TRUE
    /\ UNCHANGED <<file, watching, callbacks, mainCh, poolCh, targets, ctxDone, overlap, missed>>

WatcherStops ==
    /\ watching = "yes" /\ ctxDone
    /\ watching' = "stopped"
    /\ UNCHANGED <<file, events, armed, callbacks, mainCh, poolCh, targets, ctxDone,
                   overlap, missed>>

-----------------------------------------------------------------------------
(* The callback of the timer                                               *)

TimerFires ==
    /\ armed
    /\ armed' = FALSE
    /\ callbacks' = callbacks \cup {[pc |-> "load", start |-> file.version]}
    /\ overlap' = (overlap \/ callbacks # {})
    /\ UNCHANGED <<file, events, watching, mainCh, poolCh, targets, ctxDone, missed>>

\* LoadFromFile; what cannot be loaded is dropped.
Load(c) ==
    /\ c.pc = "load"
    /\ callbacks' = (callbacks \ {c}) \cup
           IF file.good THEN {[pc |-> "send", start |-> c.start, cfg |-> file.version]} ELSE {}
    /\ UNCHANGED <<file, events, watching, armed, mainCh, poolCh, targets, ctxDone,
                   overlap, missed>>

\* Mutant of Send: when main has not taken the last one, this one is dropped.
Send_Drops(c) ==
    /\ c.pc = "send"
    /\ mainCh' = IF mainCh = <<>> THEN <<c.cfg>> ELSE mainCh
    /\ callbacks' = callbacks \ {c}
    /\ UNCHANGED <<file, events, watching, armed, poolCh, targets, ctxDone, overlap, missed>>

\* Mutant of Send: it does not wait for room.
Send_NoWait(c) ==
    /\ c.pc = "send"
    /\ mainCh' = Append(mainCh, c.cfg)
    /\ callbacks' = callbacks \ {c}
    /\ UNCHANGED <<file, events, watching, armed, poolCh, targets, ctxDone, overlap, missed>>

\* The callback waits until main has room, or the process stops.
Send(c) ==
    /\ c.pc = "send"
    /\ \/ mainCh = <<>> /\ mainCh' = <<c.cfg>>
       \/ ctxDone /\ UNCHANGED mainCh
    /\ callbacks' = callbacks \ {c}
    /\ UNCHANGED <<file, events, watching, armed, poolCh, targets, ctxDone, overlap, missed>>

-----------------------------------------------------------------------------
(* main and the pool                                                       *)

\* Mutant of Replace: the configuration that waits is kept for later.
Replace_KeepBoth(waiting, cfg) == <<cfg>> \o waiting

\* Pool.Reload: a configuration the pool has not taken yet is replaced.
Replace(waiting, cfg) == <<cfg>>

\* main's loop, which calls Pool.Reload.
Forward ==
    /\ mainCh # <<>>
    /\ mainCh' = Tail(mainCh)
    /\ poolCh' = Replace(poolCh, Head(mainCh))
    /\ UNCHANGED <<file, events, watching, armed, callbacks, targets, ctxDone, overlap, missed>>

\* Run takes it: Pool.tla says when.
Apply ==
    /\ poolCh # <<>>
    /\ targets' = Head(poolCh)
    /\ poolCh' = Tail(poolCh)
    /\ UNCHANGED <<file, events, watching, armed, callbacks, mainCh, ctxDone, overlap, missed>>

Cancel ==
    /\ ~ctxDone
    /\ ctxDone' = TRUE
    /\ UNCHANGED <<file, events, watching, armed, callbacks, mainCh, poolCh, targets,
                   overlap, missed>>

Next ==
    \/ Edit \/ Watch \/ Event \/ WatcherStops
    \/ TimerFires
    \/ \E c \in callbacks : Load(c) \/ Send(c)
    \/ Forward \/ Apply \/ Cancel

Spec == Init /\ [][Next]_vars

\* Every goroutine goes on; a pool that leads takes what waits for it.
Fairness ==
    /\ WF_vars(Watch) /\ WF_vars(Event) /\ WF_vars(TimerFires)
    /\ WF_vars(\E c \in callbacks : Load(c)) /\ WF_vars(\E c \in callbacks : Send(c))
    /\ WF_vars(Forward) /\ WF_vars(Apply)

FairSpec == Spec /\ Fairness

-----------------------------------------------------------------------------
(* Properties                                                              *)

\* The pool never goes back to an older configuration (pool.go:67), as long as
\* no two callbacks are under way at a time.
NoRollback == [][~overlap => targets' >= targets]_vars

\* The configuration last written to the file comes into force, if it can be
\* loaded, the file was watched by then, callbacks did not overlap and the
\* process does not stop.
LastEditWins ==
    \A v \in Version :
        <>[](file.version = v /\ file.good /\ ~missed /\ ~overlap /\ ~ctxDone) => <>[](targets = v)
=============================================================================
