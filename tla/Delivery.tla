----------------------------- MODULE Delivery ------------------------------
(***************************************************************************)
(* What becomes of an alert once a rule has fired: a goroutine of its own  *)
(* posts it to a webhook (Evaluator.fire, notifier.go) and hands it to a   *)
(* bounded channel; a consumer saves it (main.go) and submits it to the    *)
(* bounded queue of the analyzer, which asks the language model about it   *)
(* (aiops/analyzer.go).  None of the three is waited for when the process  *)
(* ends.                                                                   *)
(*                                                                         *)
(* Payloads, the prompt and the advice are left out, and so are the days   *)
(* and limits, which Analyzer.tla keeps.                                   *)
(***************************************************************************)
EXTENDS Analyzer

CONSTANTS EmitCap,    \* capacity of emitCh
          QueueCap    \* capacity of Analyzer.ch

ASSUME DeliveryAssumption == EmitCap \in Nat \ {0} /\ QueueCap \in Nat \ {0}

VARIABLES
    stage,     \* where an alert is
    emitCh,    \* emitCh, a queue of alerts
    queue,     \* Analyzer.ch
    stopped,   \* Analyzer.Run has returned
    ctxDone,   \* the process has been told to stop
    exited     \* the process has ended

delivery == <<stage, emitCh, queue, stopped, ctxDone, exited>>
vars == <<now, analyzer, delivery>>

Stage == {"none",                   \* no rule has fired
          "post", "retry", "emit",  \* in its goroutine
          "emitted", "dropped",     \* in emitCh, or dropped as it was full
          "taken", "tried",         \* in the consumer, before and after SaveAlert
          "queued", "refused",      \* in Analyzer.ch, or dropped as it was full
          "history", "model",       \* in handle
          "written", "stored",      \* diagnosed, in a file only or in the database too
          "over"}                   \* handled without a diagnosis

Saving    == {"taken", "tried"}
Analysing == {"history", "model"}

DeliveryTypeOK ==
    /\ stage \in [Event -> Stage]
    /\ emitCh \in Seq(Event) /\ Len(emitCh) <= EmitCap
    /\ queue \in Seq(Event) /\ Len(queue) <= QueueCap
    /\ stopped \in BOOLEAN /\ ctxDone \in BOOLEAN /\ exited \in BOOLEAN

TypeOK == AnalyzerTypeOK /\ DeliveryTypeOK

Init ==
    /\ AnalyzerInit
    /\ stage = [e \in Event |-> "none"]
    /\ emitCh = <<>> /\ queue = <<>>
    /\ stopped = FALSE /\ ctxDone = FALSE /\ exited = FALSE

Move(e, from, to) ==
    /\ stage[e] = from
    /\ stage' = [stage EXCEPT ![e] = to]

-----------------------------------------------------------------------------
(* The goroutine of an alert                                               *)

\* OnResult: a rule has matched and is not suppressed.
Fire(e) ==
    /\ ~exited
    /\ Move(e, "none", "post")
    /\ UNCHANGED <<now, analyzer, emitCh, queue, stopped, ctxDone, exited>>

\* What becomes of a post: an answer, by its class, or an error of the network,
\* whether the alert was received or not.
PostOutcome == {"success", "client error", "server error", "network error"}

Retriable(outcome) == outcome \in {"server error", "network error"}

\* Notify: the first post.
Post(e) ==
    /\ ~exited
    /\ \E outcome \in PostOutcome :
           Move(e, "post", IF Retriable(outcome) THEN "retry" ELSE "emit")
    /\ UNCHANGED <<now, analyzer, emitCh, queue, stopped, ctxDone, exited>>

\* The second post, the last whatever its outcome, 500ms later; it is not made
\* when the 10s given to Notify are over.
Repost(e) ==
    /\ ~exited
    /\ Move(e, "retry", "emit")
    /\ UNCHANGED <<now, analyzer, emitCh, queue, stopped, ctxDone, exited>>

\* fire, its end: the alert is handed on, or dropped when the channel is full.
Emit(e) ==
    /\ ~exited
    /\ \/ /\ Len(emitCh) < EmitCap
          /\ Move(e, "emit", "emitted")
          /\ emitCh' = Append(emitCh, e)
       \/ /\ Len(emitCh) = EmitCap
          /\ Move(e, "emit", "dropped")
          /\ UNCHANGED emitCh
    /\ UNCHANGED <<now, analyzer, queue, stopped, ctxDone, exited>>

-----------------------------------------------------------------------------
(* The consumer of emitCh                                                  *)

Take ==
    /\ ~exited
    /\ emitCh # <<>>
    /\ \A e \in Event : stage[e] \notin Saving
    /\ Move(Head(emitCh), "emitted", "taken")
    /\ emitCh' = Tail(emitCh)
    /\ UNCHANGED <<now, analyzer, queue, stopped, ctxDone, exited>>

\* SaveAlert returns, with an error or without.
Save(e) ==
    /\ ~exited
    /\ Move(e, "taken", "tried")
    /\ UNCHANGED <<now, analyzer, emitCh, queue, stopped, ctxDone, exited>>

\* Mutant of Submit: it waits for room.
Submit_Blocks(e) ==
    /\ ~exited
    /\ Len(queue) < QueueCap
    /\ Move(e, "tried", "queued")
    /\ queue' = Append(queue, e)
    /\ UNCHANGED <<now, analyzer, emitCh, stopped, ctxDone, exited>>

\* A full queue keeps what it has.
Submit(e) ==
    /\ ~exited
    /\ \/ /\ Len(queue) < QueueCap
          /\ Move(e, "tried", "queued")
          /\ queue' = Append(queue, e)
       \/ /\ Len(queue) = QueueCap
          /\ Move(e, "tried", "refused")
          /\ UNCHANGED queue
    /\ UNCHANGED <<now, analyzer, emitCh, stopped, ctxDone, exited>>

-----------------------------------------------------------------------------
(* The goroutine of the analyzer                                           *)

AtSelect == ~exited /\ ~stopped /\ \A e \in Event : stage[e] \notin Analysing

\* handle, up to the gate.
Handle ==
    /\ AtSelect
    /\ queue # <<>>
    /\ queue' = Tail(queue)
    /\ \/ GateRefuses(Head(queue)) /\ Move(Head(queue), "queued", "over")
       \/ GatePasses(Head(queue)) /\ Move(Head(queue), "queued", "history")
    /\ UNCHANGED <<now, emitCh, stopped, ctxDone, exited>>

\* The history is read, or not: then nothing of the gate is given back.
History(e) ==
    /\ ~exited
    /\ Move(e, "history", "model") \/ Move(e, "history", "over")
    /\ UNCHANGED <<now, analyzer, emitCh, queue, stopped, ctxDone, exited>>

\* What the call of the model may bring: no key to call it with, no answer (an
\* error, a timeout, the end of the process's context), an answer other than 200,
\* one that cannot be read, one without a choice, or advice.
Reply == {"no key", "no answer", "refusal", "nonsense", "nothing", "advice"}

Complete(reply) == reply = "advice"

\* Advice is written to a file, and to the database only after that.  Each of
\* the two may fail.
Answer(e) ==
    /\ ~exited
    /\ \E reply \in Reply : Complete(reply)
    /\ OnOK
    /\ \E end \in {"over", "written", "stored"} : Move(e, "model", end)
    /\ UNCHANGED <<now, emitCh, queue, stopped, ctxDone, exited>>

\* Mutant of Fail: the goroutine of the analyzer ends with the call.
Fail_Stops(e) ==
    /\ ~exited
    /\ OnFail
    /\ Move(e, "model", "over")
    /\ stopped' = TRUE
    /\ UNCHANGED <<now, emitCh, queue, ctxDone, exited>>

Fail(e) ==
    /\ ~exited
    /\ \E reply \in Reply : ~Complete(reply)
    /\ OnFail
    /\ Move(e, "model", "over")
    /\ UNCHANGED <<now, emitCh, queue, stopped, ctxDone, exited>>

\* Run returns, with what is still queued.
Stop ==
    /\ AtSelect
    /\ ctxDone
    /\ stopped' = TRUE
    /\ UNCHANGED <<now, analyzer, stage, emitCh, queue, ctxDone, exited>>

-----------------------------------------------------------------------------
(* The process                                                             *)

Cancel ==
    /\ ~ctxDone
    /\ ctxDone' = TRUE
    /\ UNCHANGED <<now, analyzer, stage, emitCh, queue, stopped, exited>>

\* main waits for the HTTP server and the scheduler only.
Exit ==
    /\ ctxDone /\ ~exited
    /\ exited' = TRUE
    /\ UNCHANGED <<now, analyzer, stage, emitCh, queue, stopped, ctxDone>>

Tick ==
    /\ ~exited
    /\ now < MaxTime
    /\ now' = now + 1
    /\ UNCHANGED <<analyzer, delivery>>

Next ==
    \/ \E e \in Event : \/ Fire(e) \/ Post(e) \/ Repost(e) \/ Emit(e)
                        \/ Save(e) \/ Submit(e)
                        \/ History(e) \/ Answer(e) \/ Fail(e)
    \/ Take \/ Handle \/ Stop
    \/ Cancel \/ Exit \/ Tick

Spec == Init /\ [][Next]_vars

\* Posts and saves end: a post has a timeout, and saves are local.
MainChain ==
    /\ \A e \in Event : /\ WF_vars(Post(e)) /\ WF_vars(Repost(e)) /\ WF_vars(Emit(e))
                        /\ WF_vars(Save(e)) /\ WF_vars(Submit(e))
    /\ WF_vars(Take)

\* So do calls of the model, which have a timeout too.
SideChain ==
    /\ \A e \in Event : WF_vars(History(e)) /\ WF_vars(Answer(e) \/ Fail(e))
    /\ WF_vars(Handle)

FairSpec == Spec /\ MainChain

-----------------------------------------------------------------------------
(* Properties                                                              *)

\* Every alert that fires is settled by the main chain, saved as far as the
\* database lets it, unless emitCh was full or the process ends.  The analyzer
\* may take its time, or have stopped.
MainChainGoesOn ==
    \A e \in Event : stage[e] = "post" ~>
        stage[e] \notin {"post", "retry", "emit", "emitted", "taken", "tried"} \/ exited

\* Every alert in the queue of the analyzer is handled, unless the process stops.
QueueDrains ==
    SideChain => \A e \in Event : stage[e] = "queued" ~> stage[e] # "queued" \/ ctxDone
=============================================================================
