------------------------------- MODULE Leader -------------------------------
(***************************************************************************)
(* Leader election of gowatch (internal/cluster/leader.go, session.go):    *)
(* every node runs Leader.Run, a loop that creates an etcd session,        *)
(* campaigns on it, runs the scheduler while it leads and steps down when  *)
(* the session is lost or the process is told to stop.                     *)
(*                                                                         *)
(* The code runs three kinds of concurrent steps, which interleave freely  *)
(* here: the loop of Run (pc), the goroutine of onLeader, that is the      *)
(* pool of one term (running, cancelled), and the keep-alive goroutine of  *)
(* the session (lost).  etcd is external: leases, the election keys with   *)
(* their create revisions, expiry.                                         *)
(***************************************************************************)
EXTENDS Naturals, FiniteSets

CONSTANTS Node,         \* the gowatch processes
          NoNode,       \* "nobody", for the refinement
          MaxLease,     \* BOUND: leases etcd grants in a behaviour
          BackoffMax    \* the cap of the backoff, 30s in the code

ASSUME LeaderAssumption ==
    /\ NoNode \notin Node
    /\ MaxLease \in Nat \ {0}
    /\ BackoffMax \in Nat \ {0}

Lease   == 1 .. MaxLease
NoLease == 0

VARIABLES
    \* etcd
    nextLease,  \* the lease the next session is granted
    alive,      \* leases that have not expired and were not revoked
    keys,       \* leases whose election key exists
    rev,        \* the create revision of a lease's election key
    lastRev,    \* the last revision given out
    \* the processes
    pc,         \* where Leader.Run is
    sess,       \* the session in hand (curSess), or NoLease
    isLeader,   \* the flag that IsLeader() returns
    ctxDone,    \* the context of the process is cancelled
    backoff,    \* bo.cur, in units of the initial wait
    \* their goroutines
    lost,       \* sess.Done() of the session in hand is closed
    running,    \* terms whose onLeader goroutine has not returned
    cancelled,  \* those of them whose leaderCtx is cancelled
    \* history
    term        \* the revision under which the seat was last taken

etcdVars == <<nextLease, alive, keys, rev, lastRev>>
poolVars == <<running, cancelled>>
vars == <<etcdVars, pc, sess, isLeader, ctxDone, backoff, lost, poolVars, term>>

PC == { "down",     \* the process is not running
        "top",      \* head of the loop
        "grant",    \* inside NewSession
        "txn",      \* Campaign, before its key is written
        "wait",     \* Campaign, waiting for the older keys to go
        "abort",    \* Campaign returned an error
        "lead",     \* in office, waiting for the end of the term
        "demote",   \* leaderCtx cancelled, waiting for the pool
        "close",    \* isLeader is false again, closing the session
        "pause",    \* inside bo.Wait
        "stopped" } \* Run has returned, poolDone is closed

TypeOK ==
    /\ nextLease \in 1 .. MaxLease + 1
    /\ alive \subseteq Lease
    /\ keys \subseteq Lease
    /\ rev \in [Lease -> Nat]
    /\ lastRev \in Nat
    /\ pc \in [Node -> PC]
    /\ sess \in [Node -> Lease \cup {NoLease}]
    /\ isLeader \in [Node -> BOOLEAN]
    /\ ctxDone \in [Node -> BOOLEAN]
    /\ backoff \in [Node -> 1 .. BackoffMax]
    /\ lost \in [Node -> BOOLEAN]
    /\ running \in [Node -> SUBSET Lease]
    /\ cancelled \in [Node -> SUBSET Lease]
    /\ term \in Nat

Init ==
    /\ nextLease = 1
    /\ alive = {}
    /\ keys = {}
    /\ rev = [l \in Lease |-> 0]
    /\ lastRev = 0
    /\ pc = [n \in Node |-> "down"]
    /\ sess = [n \in Node |-> NoLease]
    /\ isLeader = [n \in Node |-> FALSE]
    /\ ctxDone = [n \in Node |-> FALSE]
    /\ backoff = [n \in Node |-> 1]
    /\ lost = [n \in Node |-> FALSE]
    /\ running = [n \in Node |-> {}]
    /\ cancelled = [n \in Node |-> {}]
    /\ term = 0

Goto(n, l) == pc' = [pc EXCEPT ![n] = l]

-----------------------------------------------------------------------------
(* The loop of Leader.Run                                                  *)

\* The process comes up: NewClient has reached etcd, Run starts afresh.
Start(n) ==
    /\ pc[n] = "down"
    /\ Goto(n, "top")
    /\ UNCHANGED <<etcdVars, sess, isLeader, ctxDone, backoff, lost, poolVars, term>>

\* Head of the loop: a cancelled context ends Run.
Check(n) ==
    /\ pc[n] = "top"
    /\ Goto(n, IF ctxDone[n] THEN "stopped" ELSE "grant")
    /\ UNCHANGED <<etcdVars, sess, isLeader, ctxDone, backoff, lost, poolVars, term>>

\* NewSession succeeds.  The etcd client lives on the context of the process.
NewSession(n) ==
    /\ pc[n] = "grant"
    /\ ~ctxDone[n]
    /\ nextLease <= MaxLease
    /\ nextLease' = nextLease + 1
    /\ alive' = alive \cup {nextLease}
    /\ sess' = [sess EXCEPT ![n] = nextLease]
    /\ lost' = [lost EXCEPT ![n] = FALSE]
    /\ Goto(n, "txn")
    /\ UNCHANGED <<keys, rev, lastRev, isLeader, ctxDone, backoff, poolVars, term>>

\* NewSession fails: etcd is not reachable, or the context is cancelled.
SessionFailed(n) ==
    /\ pc[n] = "grant"
    /\ Goto(n, "pause")
    /\ UNCHANGED <<etcdVars, sess, isLeader, ctxDone, backoff, lost, poolVars, term>>

\* Mutant of Wait: the cap is forgotten.
Wait_NoCap(n) ==
    /\ pc[n] = "pause"
    /\ Goto(n, "top")
    /\ backoff' = [backoff EXCEPT ![n] = 2 * @]
    /\ UNCHANGED <<etcdVars, sess, isLeader, ctxDone, lost, poolVars, term>>

\* backoff.Wait: returns at once on a cancelled context, doubles up to the cap.
Wait(n) ==
    /\ pc[n] = "pause"
    /\ Goto(n, "top")
    /\ backoff' = [backoff EXCEPT ![n] = IF 2 * @ > BackoffMax THEN BackoffMax ELSE 2 * @]
    /\ UNCHANGED <<etcdVars, sess, isLeader, ctxDone, lost, poolVars, term>>

\* Campaign writes the key of the session, attached to its lease: etcd
\* refuses the write when the lease is gone.
TxnPut(n) ==
    /\ pc[n] = "txn"
    /\ sess[n] \in alive
    /\ keys' = keys \cup {sess[n]}
    /\ lastRev' = lastRev + 1
    /\ rev' = [rev EXCEPT ![sess[n]] = lastRev + 1]
    /\ Goto(n, "wait")
    /\ UNCHANGED <<nextLease, alive, sess, isLeader, ctxDone, backoff, lost, poolVars, term>>

\* Mutant of CampaignFailed: the error of Campaign is not looked at.
CampaignFailed_Ignored(n) ==
    /\ pc[n] = "wait"
    /\ isLeader' = [isLeader EXCEPT ![n] = TRUE]
    /\ running' = [running EXCEPT ![n] = @ \cup {sess[n]}]
    /\ term' = IF sess[n] \in keys THEN rev[sess[n]] ELSE term
    /\ Goto(n, "lead")
    /\ UNCHANGED <<etcdVars, sess, ctxDone, backoff, lost, cancelled>>

\* Campaign fails: a lost request, a dead lease, a cancelled context.
CampaignFailed(n) ==
    /\ pc[n] \in {"txn", "wait"}
    /\ Goto(n, "abort")
    /\ UNCHANGED <<etcdVars, sess, isLeader, ctxDone, backoff, lost, poolVars, term>>

\* Mutant of AbortClose: Run gives up after a Campaign that failed.
AbortClose_Returns(n) ==
    /\ pc[n] = "abort"
    /\ \/ alive' = alive \ {sess[n]} /\ keys' = keys \ {sess[n]}
       \/ UNCHANGED <<alive, keys>>
    /\ sess' = [sess EXCEPT ![n] = NoLease]
    /\ lost' = [lost EXCEPT ![n] = FALSE]
    /\ Goto(n, "stopped")
    /\ UNCHANGED <<nextLease, rev, lastRev, isLeader, ctxDone, backoff, poolVars, term>>

\* After a failed Campaign the session is closed.  The revoke may not reach
\* etcd: the client shares the context that is being cancelled.
AbortClose(n) ==
    /\ pc[n] = "abort"
    /\ \/ alive' = alive \ {sess[n]} /\ keys' = keys \ {sess[n]}
       \/ UNCHANGED <<alive, keys>>
    /\ sess' = [sess EXCEPT ![n] = NoLease]
    /\ lost' = [lost EXCEPT ![n] = FALSE]
    /\ Goto(n, IF ctxDone[n] THEN "stopped" ELSE "pause")
    /\ UNCHANGED <<nextLease, rev, lastRev, isLeader, ctxDone, backoff, poolVars, term>>

\* No election key older than that of lease l is left.
Oldest(l) == \A k \in keys : rev[k] >= rev[l]

\* Campaign returns: the keys older than its own are gone.  Campaign does not
\* watch the session, so its own key may be gone as well.  leaderCtx is a child of the context of
\* the process.
CampaignWon(n) ==
    /\ pc[n] = "wait"
    /\ Oldest(sess[n])
    /\ isLeader' = [isLeader EXCEPT ![n] = TRUE]
    /\ running' = [running EXCEPT ![n] = @ \cup {sess[n]}]
    /\ cancelled' = IF ctxDone[n] THEN [cancelled EXCEPT ![n] = @ \cup {sess[n]}] ELSE cancelled
    /\ term' = IF sess[n] \in keys THEN rev[sess[n]] ELSE term
    /\ Goto(n, "lead")
    /\ UNCHANGED <<etcdVars, sess, ctxDone, backoff, lost>>

\* Mutants of LeadEnds: cancel() is forgotten, the session is not watched.
LeadEnds_NoCancel(n) ==
    /\ pc[n] = "lead"
    /\ lost[n] \/ ctxDone[n]
    /\ Goto(n, "demote")
    /\ UNCHANGED <<etcdVars, sess, isLeader, ctxDone, backoff, lost, poolVars, term>>

LeadEnds_SessionNotWatched(n) ==
    /\ pc[n] = "lead"
    /\ ctxDone[n]
    /\ cancelled' = [cancelled EXCEPT ![n] = @ \cup ({sess[n]} \cap running[n])]
    /\ Goto(n, "demote")
    /\ UNCHANGED <<etcdVars, sess, isLeader, ctxDone, backoff, lost, running, term>>

\* The select on sess.Done() and ctx.Done(), followed by cancel().
LeadEnds(n) ==
    /\ pc[n] = "lead"
    /\ lost[n] \/ ctxDone[n]
    /\ cancelled' = [cancelled EXCEPT ![n] = @ \cup ({sess[n]} \cap running[n])]
    /\ Goto(n, "demote")
    /\ UNCHANGED <<etcdVars, sess, isLeader, ctxDone, backoff, lost, running, term>>

\* The pool of this term has returned.
DemoteDone(n) ==
    /\ pc[n] = "demote"
    /\ sess[n] \notin running[n]
    /\ isLeader' = [isLeader EXCEPT ![n] = FALSE]
    /\ Goto(n, "close")
    /\ UNCHANGED <<etcdVars, sess, ctxDone, backoff, lost, poolVars, term>>

\* Mutant of DemoteTimeout: the wait for the pool has no cap.
DemoteTimeout_Never(n) == pc[n] = "demote" /\ FALSE

\* Five seconds have passed: Run goes on without waiting for the pool.
DemoteTimeout(n) ==
    /\ pc[n] = "demote"
    /\ sess[n] \in running[n]
    /\ isLeader' = [isLeader EXCEPT ![n] = FALSE]
    /\ Goto(n, "close")
    /\ UNCHANGED <<etcdVars, sess, ctxDone, backoff, lost, poolVars, term>>

\* sess.Close() at the end of a term; then Run returns, or resets the backoff
\* and campaigns again.
CloseSession(n) ==
    /\ pc[n] = "close"
    /\ \/ alive' = alive \ {sess[n]} /\ keys' = keys \ {sess[n]}
       \/ UNCHANGED <<alive, keys>>
    /\ sess' = [sess EXCEPT ![n] = NoLease]
    /\ lost' = [lost EXCEPT ![n] = FALSE]
    /\ Goto(n, IF ctxDone[n] THEN "stopped" ELSE "top")
    /\ backoff' = IF ctxDone[n] THEN backoff ELSE [backoff EXCEPT ![n] = 1]
    /\ UNCHANGED <<nextLease, rev, lastRev, isLeader, ctxDone, poolVars, term>>

-----------------------------------------------------------------------------
(* The other goroutines, the signal, the process                           *)

\* pool.Run returns; it does so only after its context was cancelled.
PoolExit(n, l) ==
    /\ l \in running[n] \cap cancelled[n]
    /\ running' = [running EXCEPT ![n] = @ \ {l}]
    /\ cancelled' = [cancelled EXCEPT ![n] = @ \ {l}]
    /\ UNCHANGED <<etcdVars, pc, sess, isLeader, ctxDone, backoff, lost, term>>

\* The process is told to stop (SIGINT, SIGTERM), and with its context those of
\* its pools are cancelled.
Cancel(n) ==
    /\ pc[n] \notin {"down", "stopped"}
    /\ ~ctxDone[n]
    /\ ctxDone' = [ctxDone EXCEPT ![n] = TRUE]
    /\ cancelled' = [cancelled EXCEPT ![n] = running[n]]
    /\ UNCHANGED <<etcdVars, pc, sess, isLeader, backoff, lost, running, term>>

\* The end of a process takes its goroutines with it; its session, if any,
\* is left to the lease.
EndProcess(n) ==
    /\ Goto(n, "down")
    /\ sess' = [sess EXCEPT ![n] = NoLease]
    /\ isLeader' = [isLeader EXCEPT ![n] = FALSE]
    /\ ctxDone' = [ctxDone EXCEPT ![n] = FALSE]
    /\ backoff' = [backoff EXCEPT ![n] = 1]
    /\ lost' = [lost EXCEPT ![n] = FALSE]
    /\ running' = [running EXCEPT ![n] = {}]
    /\ cancelled' = [cancelled EXCEPT ![n] = {}]
    /\ UNCHANGED <<etcdVars, term>>

\* main has received from poolDone and returns.
ProcessExit(n) == pc[n] = "stopped" /\ EndProcess(n)

Crash(n) == pc[n] \notin {"down", "stopped"} /\ EndProcess(n)

-----------------------------------------------------------------------------
(* etcd and the keep-alive goroutines of the sessions                      *)

\* The session in hand still sends keep-alives for lease l.
KeptAlive(l) == \E n \in Node : sess[n] = l /\ ~lost[n]

\* A lease runs out, and its key goes with it.  Keep-alives may all be lost,
\* so that this may happen to a lease in use.
Expire(l) ==
    /\ l \in alive
    /\ alive' = alive \ {l}
    /\ keys' = keys \ {l}
    /\ UNCHANGED <<nextLease, rev, lastRev, pc, sess, isLeader, ctxDone, backoff,
                   lost, poolVars, term>>

\* The keep-alive goroutine gives up and closes sess.Done().  It may do so
\* before or after etcd drops the lease.
NoticeLoss(n) ==
    /\ sess[n] # NoLease
    /\ ~lost[n]
    /\ lost' = [lost EXCEPT ![n] = TRUE]
    /\ UNCHANGED <<etcdVars, pc, sess, isLeader, ctxDone, backoff, poolVars, term>>

-----------------------------------------------------------------------------
Step(n) ==
    \/ Start(n) \/ Check(n) \/ NewSession(n) \/ SessionFailed(n) \/ Wait(n)
    \/ TxnPut(n) \/ CampaignFailed(n) \/ AbortClose(n) \/ CampaignWon(n)
    \/ LeadEnds(n) \/ DemoteDone(n) \/ DemoteTimeout(n) \/ CloseSession(n)
    \/ (\E l \in Lease : PoolExit(n, l))
    \/ Cancel(n) \/ ProcessExit(n) \/ Crash(n) \/ NoticeLoss(n)

Next == (\E n \in Node : Step(n)) \/ (\E l \in Lease : Expire(l))

Spec == Init /\ [][Next]_vars

\* The scheduling the code may count on: its own goroutines run, timers fire,
\* an unattended lease expires, a lost session is noticed, and a request to
\* etcd that is tried again and again gets through some day.  Nothing is
\* assumed of the pool (a check may hang), of signals, crashes and failures.
Fairness ==
    /\ \A n \in Node :
        /\ WF_vars(Check(n)) /\ WF_vars(Wait(n)) /\ WF_vars(AbortClose(n))
        /\ SF_vars(NewSession(n)) /\ WF_vars(TxnPut(n)) /\ WF_vars(CampaignWon(n))
        /\ WF_vars(LeadEnds(n)) /\ WF_vars(DemoteDone(n) \/ DemoteTimeout(n))
        /\ WF_vars(CloseSession(n))
        /\ WF_vars(ctxDone[n] /\ (SessionFailed(n) \/ CampaignFailed(n)))
        /\ WF_vars(pc[n] = "txn" /\ sess[n] \notin alive /\ CampaignFailed(n))
        /\ WF_vars(sess[n] \notin alive /\ NoticeLoss(n))
    /\ \A l \in Lease : WF_vars(~KeptAlive(l) /\ Expire(l))

FairSpec == Spec /\ Fairness

-----------------------------------------------------------------------------
(* Properties                                                              *)

\* A node that believes it leads and whose election key is still in etcd.
Holds(n) == isLeader[n] /\ sess[n] \in keys

\* The seat of Leadership.tla: the node that holds it, if any.
Holder == IF \E n \in Node : Holds(n) THEN CHOOSE n \in Node : Holds(n) ELSE NoNode

Seat == INSTANCE Leadership WITH holder <- Holder

\* At most one node believes it leads while etcd still has its key: two
\* believers can coexist, but then all of them but one have lost their key.
AtMostOneHolder ==
    \A m, n \in Node : Holds(m) /\ Holds(n) => m = n

\* A pool that nobody has told to stop belongs to the term in office: Run never
\* forgets a pool, and so never has two uncancelled pools in one process.
UncancelledPoolIsCurrent ==
    \A n \in Node : \A l \in running[n] \ cancelled[n] :
        isLeader[n] /\ pc[n] = "lead" /\ sess[n] = l

\* The election implements the seat: it is handed over only through an empty
\* seat and under a growing revision, whatever expires, crashes or is late.
RefinesSeat == Seat!Spec

\* A cancelled process leaves Run (so that main gets past poolDone), even when
\* its pool never returns: the wait for it is capped.
ShutdownTerminates ==
    \A n \in Node : ctxDone[n] ~> pc[n] \in {"stopped", "down"}

\* A leader whose lease is gone stops calling itself leader, even when its pool
\* never returns.
StaleLeaderStepsDown ==
    \A n \in Node : (isLeader[n] /\ sess[n] \notin alive) ~> ~isLeader[n]

Available(n) == pc[n] # "down" /\ ~ctxDone[n]

\* The bound on leases is reached and nobody is left in the queue.
Exhausted ==
    nextLease > MaxLease /\ ~\E n \in Node : pc[n] \in {"txn", "wait"} /\ sess[n] \in alive

\* While some process is up, somebody takes the seat, through lost requests,
\* expired sessions and candidates that died in the queue (or the process goes
\* away, or there is no lease left to do it with).
SeatFilled ==
    \A n \in Node : Available(n) ~> \/ ~Available(n)
                                    \/ \E m \in Node : Holds(m)
                                    \/ Exhausted

-----------------------------------------------------------------------------
(* The inductive invariant behind AtMostOneHolder and RefinesSeat          *)

\* Where Run has a session in hand.
InSession == {"txn", "wait", "abort", "lead", "demote", "close"}

\* A session in hand was granted, and belongs to one node; its key is written
\* by Campaign and not before; the flag is only up during a term.
SessionInv ==
    /\ \A n \in Node : sess[n] = NoLease <=> pc[n] \notin InSession
    /\ \A n \in Node : sess[n] < nextLease
    /\ \A m, n \in Node : sess[m] = sess[n] /\ sess[m] # NoLease => m = n
    /\ \A n \in Node : pc[n] = "txn" => sess[n] \notin keys
    /\ \A n \in Node : isLeader[n] => pc[n] \in {"lead", "demote"}

\* Keys belong to granted leases, and carry different revisions.
KeyInv ==
    /\ \A k \in keys : k < nextLease /\ rev[k] <= lastRev
    /\ \A k, l \in keys : rev[k] = rev[l] => k = l
    /\ term <= lastRev

\* Candidates that still have their key are younger than the last term, and a
\* leader that still has its key is the one of that term.
TermInv ==
    /\ \A n \in Node : pc[n] = "wait" /\ sess[n] \in keys => rev[sess[n]] > term
    /\ \A n \in Node : Holds(n) => rev[sess[n]] = term

Inv == TypeOK /\ SessionInv /\ KeyInv /\ TermInv
=============================================================================
