---------------------------- MODULE LeaderProofs ----------------------------
(***************************************************************************)
(* Leader keeps its invariants, for any number of nodes, leases and any    *)
(* cap of the backoff, and implements Leadership.  The election keys are   *)
(* ordered by revision, and the last term is older than every candidate    *)
(* that still has its key: that is what TermInv adds to the types.         *)
(***************************************************************************)
EXTENDS Leader, TLAPS

\* The first state, where no process runs and etcd is empty.
LEMMA InvInit == Init => Inv
  BY LeaderAssumption
  DEF Init, Inv, TypeOK, SessionInv, KeyInv, TermInv, Holds, InSession, PC, Lease, NoLease

\* The variables keep their types.  The session that becomes a term is a lease
\* because a candidate has one in hand (SessionInv).
LEMMA TypeStep == Inv /\ [Next]_vars => TypeOK'
  <1> SUFFICES ASSUME Inv, [Next]_vars PROVE TypeOK'
    OBVIOUS
  <1> USE LeaderAssumption DEF TypeOK, PC, Lease, NoLease, etcdVars, poolVars, Goto
  <1>0. TypeOK /\ \A n \in Node : pc[n] \in InSession => sess[n] \in Lease
    BY DEF Inv, SessionInv
  <1>1. ASSUME NEW n \in Node, Start(n) \/ Check(n) \/ SessionFailed(n)
                               \/ CampaignFailed(n) \/ Cancel(n) \/ NoticeLoss(n)
        PROVE TypeOK'
    BY <1>0, <1>1 DEF Start, Check, SessionFailed, CampaignFailed, Cancel, NoticeLoss
  <1>2. ASSUME NEW n \in Node, NewSession(n) PROVE TypeOK'
    BY <1>0, <1>2 DEF NewSession
  <1>3. ASSUME NEW n \in Node, Wait(n) PROVE TypeOK'
    BY <1>0, <1>3 DEF Wait
  <1>4. ASSUME NEW n \in Node, TxnPut(n) PROVE TypeOK'
    <2>1. sess[n] \in Lease /\ pc' \in [Node -> PC]
      BY <1>0, <1>4 DEF TxnPut
    <2>2. keys' \subseteq Lease
      BY <1>0, <1>4, <2>1 DEF TxnPut
    <2>3. lastRev' \in Nat /\ rev' \in [Lease -> Nat]
      BY <1>0, <1>4, <2>1 DEF TxnPut
    <2> QED
      BY <1>0, <1>4, <2>1, <2>2, <2>3 DEF TxnPut
  <1>5. ASSUME NEW n \in Node, AbortClose(n) \/ CloseSession(n) PROVE TypeOK'
    <2>1. alive' \subseteq Lease /\ keys' \subseteq Lease
      BY <1>0, <1>5 DEF AbortClose, CloseSession
    <2>2. sess' \in [Node -> Lease \cup {NoLease}] /\ lost' \in [Node -> BOOLEAN]
      BY <1>0, <1>5 DEF AbortClose, CloseSession
    <2>3. backoff' = backoff \/ backoff' = [backoff EXCEPT ![n] = 1]
      BY <1>5 DEF AbortClose, CloseSession
    <2>4. backoff' \in [Node -> 1 .. BackoffMax]
      <3>1. 1 \in 1 .. BackoffMax /\ backoff \in [Node -> 1 .. BackoffMax]
        BY <1>0
      <3> QED
        BY <2>3, <3>1
    <2>5. pc' \in [Node -> PC]
      BY <1>0, <1>5 DEF AbortClose, CloseSession
    <2> QED
      BY <1>0, <1>5, <2>1, <2>2, <2>4, <2>5 DEF AbortClose, CloseSession
  <1>6. ASSUME NEW n \in Node, CampaignWon(n) PROVE TypeOK'
    BY <1>0, <1>6 DEF CampaignWon, InSession
  <1>7. ASSUME NEW n \in Node, LeadEnds(n) PROVE TypeOK'
    BY <1>0, <1>7 DEF LeadEnds, InSession
  <1>8. ASSUME NEW n \in Node, DemoteDone(n) \/ DemoteTimeout(n) PROVE TypeOK'
    BY <1>0, <1>8 DEF DemoteDone, DemoteTimeout
  <1>9. ASSUME NEW n \in Node, NEW l \in Lease, PoolExit(n, l) PROVE TypeOK'
    BY <1>0, <1>9 DEF PoolExit
  <1>10. ASSUME NEW n \in Node, ProcessExit(n) \/ Crash(n) PROVE TypeOK'
    <2>1. EndProcess(n)
      BY <1>10 DEF ProcessExit, Crash
    <2>2. running' \in [Node -> SUBSET Lease] /\ cancelled' \in [Node -> SUBSET Lease]
      BY <1>0, <2>1 DEF EndProcess
    <2>3. sess' \in [Node -> Lease \cup {NoLease}] /\ pc' \in [Node -> PC]
          /\ isLeader' \in [Node -> BOOLEAN] /\ ctxDone' \in [Node -> BOOLEAN]
          /\ lost' \in [Node -> BOOLEAN] /\ backoff' \in [Node -> 1 .. BackoffMax]
      BY <1>0, <2>1 DEF EndProcess
    <2> QED
      BY <1>0, <2>1, <2>2, <2>3 DEF EndProcess
  <1>11. ASSUME NEW l \in Lease, Expire(l) PROVE TypeOK'
    BY <1>0, <1>11 DEF Expire
  <1>12. CASE UNCHANGED vars
    BY <1>0, <1>12 DEF vars
  <1> QED
    BY <1>1, <1>2, <1>3, <1>4, <1>5, <1>6, <1>7, <1>8, <1>9, <1>10, <1>11, <1>12
    DEF Next, Step

\* One session per node, granted to it alone; its key is written after "txn".
LEMMA SessionStep == Inv /\ [Next]_vars => SessionInv'
  <1> SUFFICES ASSUME Inv, [Next]_vars PROVE SessionInv'
    OBVIOUS
  <1> USE DEF Lease, NoLease, InSession, etcdVars, poolVars, Goto
  <1>0. TypeOK /\ SessionInv /\ KeyInv
    BY DEF Inv
  <1>a. /\ nextLease \in Nat /\ keys \subseteq Lease
        /\ pc \in [Node -> PC] /\ sess \in [Node -> Lease \cup {NoLease}]
        /\ isLeader \in [Node -> BOOLEAN]
    BY <1>0 DEF TypeOK
  <1>b. MaxLease \in Nat
    BY LeaderAssumption
  <1>1. ASSUME NEW n \in Node, Start(n) \/ Check(n) \/ SessionFailed(n) \/ Wait(n)
                               \/ CampaignFailed(n) \/ Cancel(n) \/ NoticeLoss(n)
        PROVE SessionInv'
    BY <1>0, <1>a, <1>1
    DEF SessionInv, Start, Check, SessionFailed, Wait, CampaignFailed, Cancel, NoticeLoss
  <1>2. ASSUME NEW n \in Node, NewSession(n) PROVE SessionInv'
    BY <1>0, <1>a, <1>2 DEF SessionInv, KeyInv, NewSession
  <1>3. ASSUME NEW n \in Node, TxnPut(n) PROVE SessionInv'
    BY <1>0, <1>a, <1>3 DEF SessionInv, TxnPut
  <1>4. ASSUME NEW n \in Node, AbortClose(n) \/ CloseSession(n) PROVE SessionInv'
    BY <1>0, <1>a, <1>4 DEF SessionInv, AbortClose, CloseSession
  <1>5. ASSUME NEW n \in Node, CampaignWon(n) \/ LeadEnds(n) PROVE SessionInv'
    BY <1>0, <1>a, <1>5 DEF SessionInv, CampaignWon, LeadEnds
  <1>6. ASSUME NEW n \in Node, DemoteDone(n) \/ DemoteTimeout(n) PROVE SessionInv'
    BY <1>0, <1>a, <1>6 DEF SessionInv, DemoteDone, DemoteTimeout
  <1>7. ASSUME NEW n \in Node, ProcessExit(n) \/ Crash(n) PROVE SessionInv'
    BY <1>0, <1>a, <1>7 DEF SessionInv, ProcessExit, Crash, EndProcess
  <1>8. ASSUME NEW n \in Node, NEW l \in Lease, PoolExit(n, l) PROVE SessionInv'
    BY <1>0, <1>8 DEF SessionInv, PoolExit
  <1>9. ASSUME NEW l \in Lease, Expire(l) PROVE SessionInv'
    BY <1>0, <1>9 DEF SessionInv, Expire
  <1>10. CASE UNCHANGED vars
    BY <1>0, <1>10 DEF SessionInv, vars
  <1> QED
    BY <1>1, <1>2, <1>3, <1>4, <1>5, <1>6, <1>7, <1>8, <1>9, <1>10 DEF Next, Step

\* Keys are written under fresh revisions, and a term is the revision of a key.
LEMMA KeyStep == Inv /\ [Next]_vars => KeyInv'
  <1> SUFFICES ASSUME Inv, [Next]_vars PROVE KeyInv'
    OBVIOUS
  <1> USE DEF etcdVars, poolVars
  <1>0. KeyInv
    BY DEF Inv
  <1>a. /\ nextLease \in Nat /\ lastRev \in Nat /\ term \in Nat
        /\ keys \subseteq Lease /\ alive \subseteq Lease /\ rev \in [Lease -> Nat]
    BY LeaderAssumption DEF Inv, TypeOK
  <1>1. ASSUME keys' \subseteq keys, rev' = rev, lastRev' = lastRev, term' = term,
               nextLease' = nextLease \/ nextLease' = nextLease + 1
        PROVE KeyInv'
    <2>1. \A k \in keys : k \in Nat
      BY <1>a, LeaderAssumption DEF Lease
    <2> QED
      BY <1>0, <1>a, <1>1, <2>1 DEF KeyInv
  <1>2. ASSUME NEW n \in Node, TxnPut(n) PROVE KeyInv'
    <2>1. sess[n] \in Lease /\ sess[n] \notin keys /\ sess[n] < nextLease
      BY <1>2, <1>a DEF Inv, SessionInv, TxnPut
    <2>2. /\ keys' = keys \cup {sess[n]} /\ lastRev' = lastRev + 1
          /\ nextLease' = nextLease /\ term' = term
          /\ rev'[sess[n]] = lastRev + 1
          /\ \A k \in keys : rev'[k] = rev[k] /\ rev[k] \in Nat
      BY <1>2, <1>a, <2>1 DEF TxnPut
    <2> QED
      BY <1>0, <1>a, <2>1, <2>2 DEF KeyInv
  <1>3. ASSUME NEW n \in Node, CampaignWon(n) PROVE KeyInv'
    BY <1>0, <1>3 DEF KeyInv, CampaignWon
  <1> QED
    BY <1>1, <1>2, <1>3 DEF Next, Step, vars, Start, Check, NewSession, SessionFailed,
       Wait, CampaignFailed, AbortClose, LeadEnds, DemoteDone, DemoteTimeout, CloseSession,
       PoolExit, Cancel, ProcessExit, Crash, EndProcess, NoticeLoss, Expire

\* A node wins when no older key is left: a candidate with a key is then younger
\* than the term, and a leader that still has its key would have been in the way.
LEMMA TermStep == Inv /\ [Next]_vars => TermInv'
  <1> SUFFICES ASSUME Inv, [Next]_vars PROVE TermInv'
    OBVIOUS
  <1> USE DEF etcdVars, poolVars, Goto
  <1>0. SessionInv /\ KeyInv /\ TermInv
    BY DEF Inv
  <1>a. /\ lastRev \in Nat /\ term \in Nat /\ nextLease \in Nat
        /\ keys \subseteq Lease /\ alive \subseteq Lease /\ rev \in [Lease -> Nat]
        /\ pc \in [Node -> PC] /\ sess \in [Node -> Lease \cup {NoLease}]
        /\ isLeader \in [Node -> BOOLEAN]
    BY LeaderAssumption DEF Inv, TypeOK
  <1>b. NoLease \notin Lease
    BY DEF NoLease, Lease
  \* a step that takes no seat, writes no key and grants no session
  <1>1. ASSUME keys' \subseteq keys, rev' = rev, term' = term,
               \A m \in Node : /\ pc'[m] = "wait" => pc[m] = "wait" /\ sess'[m] = sess[m]
                               /\ isLeader'[m] => isLeader[m] /\ sess'[m] = sess[m]
        PROVE TermInv'
    <2>1. ASSUME NEW m \in Node, pc'[m] = "wait", sess'[m] \in keys'
          PROVE rev'[sess'[m]] > term'
      BY <1>0, <1>1, <2>1 DEF TermInv
    <2>2. ASSUME NEW m \in Node, isLeader'[m], sess'[m] \in keys'
          PROVE rev'[sess'[m]] = term'
      BY <1>0, <1>1, <2>2 DEF TermInv, Holds
    <2> QED
      BY <2>1, <2>2 DEF TermInv, Holds
  <1>2. ASSUME NEW n \in Node, NewSession(n) PROVE TermInv'
    <2>1. pc' = [pc EXCEPT ![n] = "txn"] /\ sess' = [sess EXCEPT ![n] = nextLease]
          /\ keys' = keys /\ rev' = rev /\ term' = term /\ isLeader' = isLeader
      BY <1>2 DEF NewSession
    <2>2. ~isLeader[n]
      BY <1>0, <1>2 DEF NewSession, SessionInv
    <2> QED
      BY <1>1, <1>a, <2>1, <2>2
  <1>3. ASSUME NEW n \in Node, TxnPut(n) PROVE TermInv'
    <2>1. sess[n] \in Lease /\ sess[n] \notin keys
      BY <1>3, <1>a, <1>0 DEF SessionInv, TxnPut
    <2>2. /\ keys' = keys \cup {sess[n]} /\ pc' = [pc EXCEPT ![n] = "wait"]
          /\ rev' = [rev EXCEPT ![sess[n]] = lastRev + 1]
          /\ sess' = sess /\ isLeader' = isLeader /\ term' = term
      BY <1>3 DEF TxnPut
    <2>3. ~isLeader[n]
      BY <1>0, <1>3 DEF TxnPut, SessionInv
    <2>4. ASSUME NEW m \in Node, m # n, sess[m] \in keys'
          PROVE sess[m] \in keys /\ rev'[sess[m]] = rev[sess[m]]
      BY <1>0, <1>a, <1>b, <2>1, <2>2, <2>4 DEF SessionInv
    <2>5. rev'[sess[n]] > term
      BY <1>0, <1>a, <2>1, <2>2 DEF KeyInv
    <2> QED
      BY <1>0, <1>a, <2>2, <2>3, <2>4, <2>5 DEF TermInv, Holds
  <1>4. ASSUME NEW n \in Node, CampaignWon(n) PROVE TermInv'
    <2>1. /\ pc' = [pc EXCEPT ![n] = "lead"] /\ isLeader' = [isLeader EXCEPT ![n] = TRUE]
          /\ term' = (IF sess[n] \in keys THEN rev[sess[n]] ELSE term)
          /\ sess' = sess /\ keys' = keys /\ rev' = rev
          /\ pc[n] = "wait" /\ \A k \in keys : rev[k] >= rev[sess[n]]
      BY <1>4 DEF CampaignWon, Oldest
    <2>2. CASE sess[n] \notin keys
      BY <1>0, <1>a, <2>1, <2>2 DEF TermInv, Holds
    <2>3. CASE sess[n] \in keys
      <3>1. term' = rev[sess[n]] /\ rev[sess[n]] > term /\ sess[n] \in Lease
        BY <1>0, <1>a, <2>1, <2>3 DEF TermInv
      <3>2. ASSUME NEW m \in Node, m # n, sess[m] \in keys
            PROVE rev[sess[m]] > term' /\ ~isLeader[m]
        <4>1. sess[m] # sess[n] /\ sess[m] \in Lease
          BY <1>0, <1>a, <1>b, <3>1, <3>2 DEF SessionInv
        <4>2. rev[sess[m]] # rev[sess[n]]
          BY <1>0, <2>3, <3>2, <4>1 DEF KeyInv
        <4>3. rev[sess[m]] > rev[sess[n]]
          BY <1>a, <2>1, <3>1, <3>2, <4>1, <4>2
        <4>4. ~isLeader[m]
          BY <1>0, <1>a, <3>1, <3>2, <4>1, <4>3 DEF TermInv, Holds
        <4> QED
          BY <3>1, <4>3, <4>4
      <3> QED
        BY <1>a, <2>1, <3>1, <3>2 DEF TermInv, Holds
    <2> QED
      BY <2>2, <2>3
  <1>5. ASSUME NEW n \in Node,
               Start(n) \/ Check(n) \/ SessionFailed(n) \/ Wait(n) \/ CampaignFailed(n)
               \/ Cancel(n) \/ NoticeLoss(n) \/ LeadEnds(n) \/ DemoteDone(n) \/ DemoteTimeout(n)
        PROVE TermInv'
    BY <1>1, <1>5, <1>a
    DEF Start, Check, SessionFailed, Wait, CampaignFailed, Cancel, NoticeLoss, LeadEnds,
        DemoteDone, DemoteTimeout
  <1>6. ASSUME NEW n \in Node, AbortClose(n) \/ CloseSession(n) PROVE TermInv'
    <2>1. ~isLeader[n]
      BY <1>0, <1>6 DEF AbortClose, CloseSession, SessionInv
    <2> QED
      BY <1>1, <1>6, <1>a, <2>1 DEF AbortClose, CloseSession
  <1>7. ASSUME NEW n \in Node, ProcessExit(n) \/ Crash(n) PROVE TermInv'
    BY <1>1, <1>7, <1>a DEF ProcessExit, Crash, EndProcess
  <1>8. ASSUME NEW n \in Node, NEW l \in Lease, PoolExit(n, l) PROVE TermInv'
    BY <1>1, <1>8 DEF PoolExit
  <1>9. ASSUME NEW l \in Lease, Expire(l) PROVE TermInv'
    BY <1>1, <1>9 DEF Expire
  <1>10. CASE UNCHANGED vars
    BY <1>1, <1>10 DEF vars
  <1> QED
    BY <1>2, <1>3, <1>4, <1>5, <1>6, <1>7, <1>8, <1>9, <1>10 DEF Next, Step

\* The inductive invariant holds in every reachable state: types, sessions,
\* keys and terms are as Leader.tla says, whatever expires, crashes or is late.
THEOREM InvCorrect == Spec => []Inv
  <1>1. Inv /\ [Next]_vars => Inv'
    BY TypeStep, SessionStep, KeyStep, TermStep DEF Inv
  <1> QED
    BY InvInit, <1>1, PTL DEF Spec

\* Every variable keeps to its type: the backoff stays under its cap, and a term
\* is only ever started on a session that was granted.
THEOREM TypeCorrect == Spec => []TypeOK
  BY InvCorrect, PTL DEF Inv

\* Two holders would share the revision of the last term, hence the session.
LEMMA OneHolder == Inv => AtMostOneHolder
  <1> SUFFICES ASSUME Inv, NEW m \in Node, NEW n \in Node, Holds(m), Holds(n)
               PROVE m = n
    BY DEF AtMostOneHolder
  <1>1. rev[sess[m]] = rev[sess[n]]
    BY DEF Inv, TermInv
  <1>2. sess[m] = sess[n]
    BY <1>1 DEF Inv, KeyInv, Holds
  <1>3. sess[m] # NoLease
    BY DEF Inv, TypeOK, Holds, Lease, NoLease
  <1> QED
    BY <1>2, <1>3 DEF Inv, SessionInv

\* Two nodes never hold the seat at once: of those that believe they lead, only
\* one still has its key in etcd.
THEOREM Exclusion == Spec => []AtMostOneHolder
  BY InvCorrect, OneHolder, PTL

\* Run never forgets a pool: one that is not cancelled is that of the term in
\* office, so that two pools of a process are never both meant to run.
THEOREM NoForgottenPool == Spec => []UncancelledPoolIsCurrent
  <1>1. Init => UncancelledPoolIsCurrent
    BY DEF Init, UncancelledPoolIsCurrent
  <1>2. TypeOK /\ UncancelledPoolIsCurrent /\ [Next]_vars => UncancelledPoolIsCurrent'
    <2> SUFFICES ASSUME TypeOK, UncancelledPoolIsCurrent, [Next]_vars
                 PROVE UncancelledPoolIsCurrent'
      OBVIOUS
    <2> USE DEF UncancelledPoolIsCurrent, etcdVars, poolVars, Goto
    <2>0. /\ pc \in [Node -> PC] /\ sess \in [Node -> Lease \cup {NoLease}]
          /\ isLeader \in [Node -> BOOLEAN]
          /\ running \in [Node -> SUBSET Lease] /\ cancelled \in [Node -> SUBSET Lease]
      BY DEF TypeOK
    <2>1. ASSUME NEW n \in Node, Start(n) \/ Check(n) \/ NewSession(n) \/ SessionFailed(n)
                                 \/ Wait(n) \/ TxnPut(n) \/ CampaignFailed(n)
          PROVE UncancelledPoolIsCurrent'
      BY <2>0, <2>1 DEF Start, Check, NewSession, SessionFailed, Wait, TxnPut, CampaignFailed
    <2>2. ASSUME NEW n \in Node, AbortClose(n) \/ CloseSession(n)
          PROVE UncancelledPoolIsCurrent'
      BY <2>0, <2>2 DEF AbortClose, CloseSession
    <2>3. ASSUME NEW n \in Node, CampaignWon(n) PROVE UncancelledPoolIsCurrent'
      BY <2>0, <2>3 DEF CampaignWon
    <2>4. ASSUME NEW n \in Node, LeadEnds(n) PROVE UncancelledPoolIsCurrent'
      BY <2>0, <2>4 DEF LeadEnds
    <2>5. ASSUME NEW n \in Node, DemoteDone(n) \/ DemoteTimeout(n)
          PROVE UncancelledPoolIsCurrent'
      BY <2>0, <2>5 DEF DemoteDone, DemoteTimeout
    <2>6. ASSUME NEW n \in Node, NEW l \in Lease, PoolExit(n, l)
          PROVE UncancelledPoolIsCurrent'
      BY <2>0, <2>6 DEF PoolExit
    <2>7. ASSUME NEW n \in Node, Cancel(n) PROVE UncancelledPoolIsCurrent'
      <3> SUFFICES ASSUME NEW m \in Node, NEW l \in running'[m] \ cancelled'[m]
                   PROVE  isLeader'[m] /\ pc'[m] = "lead" /\ sess'[m] = l
        OBVIOUS
      <3>1. m # n /\ l \in running[m] \ cancelled[m]
        BY <2>0, <2>7 DEF Cancel
      <3> QED
        BY <2>7, <3>1 DEF Cancel
    <2>7a. ASSUME NEW n \in Node, NoticeLoss(n) PROVE UncancelledPoolIsCurrent'
      BY <2>7a DEF NoticeLoss
    <2>8. ASSUME NEW n \in Node, ProcessExit(n) \/ Crash(n)
          PROVE UncancelledPoolIsCurrent'
      BY <2>0, <2>8 DEF ProcessExit, Crash, EndProcess
    <2>9. ASSUME NEW l \in Lease, Expire(l) PROVE UncancelledPoolIsCurrent'
      BY <2>9 DEF Expire
    <2>10. CASE UNCHANGED vars
      BY <2>10 DEF vars
    <2> QED
      BY <2>1, <2>2, <2>3, <2>4, <2>5, <2>6, <2>7, <2>7a, <2>8, <2>9, <2>10 DEF Next, Step
  <1> QED
    BY TypeCorrect, <1>1, <1>2, PTL DEF Spec

\* What the CHOOSE in Holder stands for, once there is at most one candidate.
HolderFacts ==
    /\ Holder \in Node \cup {NoNode}
    /\ \A n \in Node : Holds(n) <=> Holder = n

\* With one holder at most, whoever holds the seat is the one it is mapped to.
LEMMA HolderIs == AtMostOneHolder => HolderFacts
  <1> SUFFICES ASSUME AtMostOneHolder PROVE HolderFacts
    OBVIOUS
  <1>1. CASE \E n \in Node : Holds(n)
    BY <1>1 DEF AtMostOneHolder, HolderFacts, Holder
  <1>2. CASE ~\E n \in Node : Holds(n)
    BY <1>2, LeaderAssumption DEF HolderFacts, Holder
  <1> QED
    BY <1>1, <1>2

\* The election implements the abstract seat: winning takes the empty seat under
\* a larger revision, every other step leaves it alone or empties it.
THEOREM Refinement == Spec => RefinesSeat
  <1>1. Init => Seat!Init
    BY DEF Init, Seat!Init, Holder, Holds
  <1>2. Inv /\ HolderFacts /\ HolderFacts' /\ [Next]_vars => [Seat!Next]_(Seat!vars)
    <2> SUFFICES ASSUME Inv, HolderFacts, HolderFacts', [Next]_vars
                 PROVE [Seat!Next]_(Seat!vars)
      OBVIOUS
    <2> USE DEF etcdVars, poolVars, Goto
    <2>a. /\ keys \subseteq Lease /\ rev \in [Lease -> Nat] /\ term \in Nat
          /\ sess \in [Node -> Lease \cup {NoLease}] /\ isLeader \in [Node -> BOOLEAN]
      BY DEF Inv, TypeOK
    <2>b. /\ Holder \in Node \cup {NoNode}
          /\ \A n \in Node : Holds(n) <=> Holder = n
      BY DEF HolderFacts
    <2>c. /\ Holder' \in Node \cup {NoNode}
          /\ \A n \in Node : Holds(n)' <=> Holder' = n
      BY DEF HolderFacts
    <2>1. ASSUME term' = term, \A n \in Node : Holds(n)' => Holds(n)
          PROVE [Seat!Next]_(Seat!vars)
      BY <2>b, <2>c, <2>1 DEF Seat!Next, Seat!Yield, Seat!vars
    <2>2. ASSUME NEW n \in Node, CampaignWon(n) PROVE [Seat!Next]_(Seat!vars)
      <3>1. /\ isLeader' = [isLeader EXCEPT ![n] = TRUE] /\ sess' = sess /\ keys' = keys
            /\ term' = (IF sess[n] \in keys THEN rev[sess[n]] ELSE term)
            /\ pc[n] = "wait" /\ \A k \in keys : rev[k] >= rev[sess[n]]
        BY <2>2 DEF CampaignWon, Oldest
      <3>2. CASE sess[n] \notin keys
        BY <2>1, <2>a, <3>1, <3>2 DEF Holds
      <3>3. CASE sess[n] \in keys
        <4>1. term' \in Nat /\ term' > term
          BY <2>a, <3>1, <3>3 DEF Inv, TermInv
        <4>2. Holds(n)'
          BY <2>a, <3>1, <3>3 DEF Holds
        <4>3. \A m \in Node : ~Holds(m)
          BY <2>a, <3>1, <3>3, <4>1 DEF Holds, Inv, TermInv
        <4> QED
          BY <2>b, <2>c, <4>1, <4>2, <4>3 DEF Seat!Next, Seat!Take
      <3> QED
        BY <3>2, <3>3
    <2>3. ASSUME NEW n \in Node, NewSession(n) \/ TxnPut(n) PROVE [Seat!Next]_(Seat!vars)
      <3>1. ~isLeader[n]
        BY <2>3 DEF Inv, SessionInv, NewSession, TxnPut
      <3>2. CASE NewSession(n)
        BY <2>1, <2>a, <3>1, <3>2 DEF Holds, NewSession
      <3>3. CASE TxnPut(n)
        <4>1. ASSUME NEW m \in Node, Holds(m)' PROVE Holds(m)
          <5>1. m # n /\ sess[m] \in Lease /\ sess[m] \in keys \cup {sess[n]}
            BY <2>a, <3>1, <3>3, <4>1 DEF Holds, TxnPut, Inv, TypeOK
          <5>2. sess[m] # sess[n]
            BY <5>1 DEF Inv, SessionInv, Lease, NoLease
          <5> QED
            BY <3>3, <4>1, <5>1, <5>2 DEF Holds, TxnPut
        <4> QED
          BY <2>1, <3>3, <4>1 DEF TxnPut
      <3> QED
        BY <2>3, <3>2, <3>3
    <2>4. ASSUME NEW n \in Node, AbortClose(n) \/ CloseSession(n)
          PROVE [Seat!Next]_(Seat!vars)
      <3>1. ~isLeader[n]
        BY <2>4 DEF Inv, SessionInv, AbortClose, CloseSession
      <3> QED
        BY <2>1, <2>4, <2>a, <3>1 DEF Holds, AbortClose, CloseSession
    <2>5. ASSUME NEW n \in Node,
                 Start(n) \/ Check(n) \/ SessionFailed(n) \/ Wait(n) \/ CampaignFailed(n)
                 \/ Cancel(n) \/ NoticeLoss(n) \/ LeadEnds(n) \/ DemoteDone(n) \/ DemoteTimeout(n)
          PROVE [Seat!Next]_(Seat!vars)
      BY <2>1, <2>5, <2>a
      DEF Holds, Start, Check, SessionFailed, Wait, CampaignFailed, Cancel, NoticeLoss,
          LeadEnds, DemoteDone, DemoteTimeout
    <2>6. ASSUME NEW n \in Node, ProcessExit(n) \/ Crash(n) PROVE [Seat!Next]_(Seat!vars)
      BY <2>1, <2>6, <2>a DEF Holds, ProcessExit, Crash, EndProcess
    <2>7. ASSUME NEW n \in Node, NEW l \in Lease, PoolExit(n, l)
          PROVE [Seat!Next]_(Seat!vars)
      BY <2>1, <2>7 DEF Holds, PoolExit
    <2>8. ASSUME NEW l \in Lease, Expire(l) PROVE [Seat!Next]_(Seat!vars)
      BY <2>1, <2>8 DEF Holds, Expire
    <2>9. CASE UNCHANGED vars
      BY <2>1, <2>9 DEF Holds, vars
    <2> QED
      BY <2>2, <2>3, <2>4, <2>5, <2>6, <2>7, <2>8, <2>9 DEF Next, Step
  <1> QED
    BY InvCorrect, Exclusion, HolderIs, <1>1, <1>2, PTL DEF Spec, RefinesSeat, Seat!Spec
=============================================================================
