-------------------------- MODULE OrderPipelineProofs --------------------------
(***************************************************************************)
(* Proofs about OrderPipeline for any number of requests, streams, users   *)
(* and cancellations, any retry limit and any TTL of the fingerprints.     *)
(* ExecInv is what OrderExecutorProofs shows every step of OrderExecutor   *)
(* to keep, and every step of the pipeline is such a step or leaves the    *)
(* executor alone.  RiskInv says what the absence of a fingerprint tells   *)
(* of the requests that passed before, StopInv where a request, its stream *)
(* and its call of Execute can be at one time.  The last theorem carries   *)
(* what OrderExecutorProofs shows to OrderCallers.                         *)
(***************************************************************************)
EXTENDS OrderPipeline, OrderCallers, TLAPS

\* The calls of Execute and Cancel, with what is proved about them.
Calls == INSTANCE OrderExecutorProofs

ExecInv == Calls!IInv /\ Calls!RecordedInv

HandlerTypes == /\ life \in {"down", "up", "stopping"}
                /\ stream \in [Streams -> {"new", "open", "closed"}]
                /\ stage \in [Orders -> Stage]
                /\ response \in [Orders -> Response]
RiskTypes == /\ key \in [Fingerprints -> BOOLEAN]
             /\ window \in [Fingerprints -> SUBSET Orders]
             /\ unset \in SUBSET Orders
             /\ earlier \in [Orders -> SUBSET Orders]

\* What a request has begun was received on a stream; a process that ends in good
\* order has no open stream left; Execute runs once the rules have passed.
StopInv ==
  \A r \in Orders :
    /\ stage[r] # "unsent" => stream[StreamOf[r]] # "new"
    /\ stage[r] = "crashed" => stream[StreamOf[r]] = "closed"
    /\ stage[r] \notin {"execute", "done", "crashed"} => pc[r] = "idle"
    /\ pc[r] = "error" /\ placed[r] > 0 => attempt[r] = MaxRetries + 1
    /\ response[r] = "REJECTED" => stage[r] = "done" /\ pc[r] \in {"idle", "error"}

Accepted == \A r \in Orders : response[r] = "ACCEPTED" => pc[r] = "ok"

\* Without a key every order of the window has its SET to blame, and so has
\* every order that passed before another one found no key.
RiskInv == /\ \A f \in Fingerprints : ~key[f] => window[f] \subseteq unset
           /\ \A r \in Orders : earlier[r] \subseteq unset

-----------------------------------------------------------------------------
\* The constants of the pipeline are as OrderExecutor assumes them.
LEMMA CallsAssumptions == /\ Calls!OrdersAssumption
                          /\ Calls!RetriesAssumption
                          /\ Calls!LearnsAssumption
  BY PipelineAssumption
  DEF Calls!OrdersAssumption, Calls!RetriesAssumption, Calls!LearnsAssumption

\* Exec and Calls are the same specification.
LEMMA SameInit == Exec!Init <=> Calls!Init
  BY DEF Exec!Init, Calls!Init

LEMMA SameNext == [Exec!Next]_(Exec!vars) <=> [Calls!Next]_(Calls!vars)
  BY
  DEF Exec!Next, Calls!Next, Exec!ExecuteStep, Calls!ExecuteStep,
      Exec!CancelStep, Calls!CancelStep, Exec!Begin, Calls!Begin,
      Exec!CreateOrder, Calls!CreateOrder, Exec!SubmitAnswered,
      Calls!SubmitAnswered, Exec!SubmitAnswerLost, Calls!SubmitAnswerLost,
      Exec!SubmitNotTaken, Calls!SubmitNotTaken, Exec!Retry, Calls!Retry,
      Exec!SaveExecution, Calls!SaveExecution, Exec!UpdateOrderStatus,
      Calls!UpdateOrderStatus, Exec!MarkSent, Calls!MarkSent,
      Exec!MarkRejected, Calls!MarkRejected, Exec!PublishOrderEvent,
      Calls!PublishOrderEvent, Exec!PublishSent, Calls!PublishSent,
      Exec!PublishRejected, Calls!PublishRejected, Exec!CancelTo,
      Calls!CancelTo, Exec!Known, Calls!Known, Exec!CancelGetOrder,
      Calls!CancelGetOrder, Exec!CancelAtBroker, Calls!CancelAtBroker,
      Exec!CancelUpdateStatus, Calls!CancelUpdateStatus, Exec!CancelPublish,
      Calls!CancelPublish, Exec!EndContexts, Calls!EndContexts, Exec!Crash,
      Calls!Crash, Exec!DbOutcomes, Calls!DbOutcomes, Exec!Applied,
      Calls!Applied, Exec!Goto, Calls!Goto, Exec!At, Calls!At, Exec!Running,
      Calls!Running, Exec!Cancelling, Calls!Cancelling, Exec!execVars,
      Calls!execVars, Exec!tableVars, Calls!tableVars, Exec!brokerVars,
      Calls!brokerVars, Exec!cancelVars, Calls!cancelVars, Exec!vars,
      Calls!vars

\* What every step of OrderExecutor keeps holds under the pipeline too.
LEMMA InitExecInv == Exec!Init => ExecInv
  BY SameInit, CallsAssumptions, Calls!InitIInv, Calls!InitRecordedInv DEF ExecInv

LEMMA NextExecInv == ExecInv /\ [Exec!Next]_(Exec!vars) => ExecInv'
  BY SameNext, CallsAssumptions, Calls!NextIInv, Calls!NextRecordedInv DEF ExecInv

-----------------------------------------------------------------------------
\* Every step of the pipeline is a step of OrderExecutor or leaves the calls,
\* the table, the broker and the events as they are.
LEMMA PipelineStep == [Next]_vars => [Exec!Next]_(Exec!vars)
<1> SUFFICES ASSUME [Next]_vars
             PROVE  Exec!Next \/ UNCHANGED Exec!vars
  OBVIOUS
<1> DEFINE Same == UNCHANGED executorVars
<1>1. Same => UNCHANGED Exec!vars
  BY DEF executorVars, Exec!vars, Exec!execVars, Exec!tableVars,
         Exec!brokerVars, Exec!cancelVars
<1>2. ASSUME NEW s \in Streams, Connect(s)
      PROVE  Same
  BY <1>2 DEF Connect
<1>3. ASSUME NEW S \in SUBSET Streams, EndStreams(S)
      PROVE  Exec!Next
  <2>1. {r \in Orders : StreamOf[r] \in S} \in SUBSET Orders
    OBVIOUS
  <2> QED
    BY <2>1, <1>3 DEF EndStreams, Exec!Next
<1>4. ASSUME NEW s \in Streams, Disconnect(s)
      PROVE  Exec!Next
  <2>1. {s} \in SUBSET Streams /\ EndStreams({s})
    BY <1>4 DEF Disconnect
  <2> QED
    BY <2>1, <1>3
<1>5. ASSUME NEW r \in Orders, Receive(r)
      PROVE  Same
  BY <1>5 DEF Receive, Decide
<1>6. ASSUME NEW r \in Orders, ProcessStep(r)
      PROVE  Exec!Next \/ Same
  <2>1. CASE CallExecute(r)
    BY <2>1 DEF CallExecute, Exec!Next
  <2>2. CASE Execute(r)
    BY <2>2 DEF Execute, Exec!Next
  <2>3. CASE SetFingerprint(r)
    BY <2>3 DEF SetFingerprint
  <2>4. CASE Respond(r)
    BY <2>4 DEF Respond
  <2>5. CASE CheckRateLimit(r) \/ CheckPriceRules(r) \/ CheckDuplicate(r)
               \/ RefuseSymbol(r)
    BY <2>5 DEF CheckRateLimit, CheckPriceRules, CheckDuplicate, FoundNone,
                RefuseSymbol, Decide
  <2> QED
    BY <1>6, <2>1, <2>2, <2>3, <2>4, <2>5 DEF ProcessStep
<1>7. ASSUME NEW f \in Fingerprints, ExpireFingerprint(f)
      PROVE  Same
  BY <1>7 DEF ExpireFingerprint
<1>8. CASE Cancel
  BY <1>8 DEF Cancel, Exec!Next
<1>9. CASE Start \/ Signal
  BY <1>9, <1>1 DEF Start, Signal
<1>10. CASE ForceStop
  <2>1. OpenStreams \in SUBSET Streams /\ EndStreams(OpenStreams)
    BY <1>10 DEF ForceStop, OpenStreams
  <2> QED
    BY <2>1, <1>3
<1>11. CASE Exit \/ Crash
  BY <1>11 DEF Exit, Crash, Gone, Exec!Next
<1>12. CASE UNCHANGED vars
  BY <1>12, <1>1 DEF vars
<1> QED
  BY <1>1, <1>2, <1>4, <1>5, <1>6, <1>7, <1>8, <1>9, <1>10, <1>11, <1>12
  DEF Next

-----------------------------------------------------------------------------
\* The stages, the answers and the streams keep their types.
LEMMA NextHandlerTypes == HandlerTypes /\ [Next]_vars => HandlerTypes'
<1> SUFFICES ASSUME HandlerTypes, [Next]_vars
             PROVE  HandlerTypes'
  OBVIOUS
<1> USE DEF HandlerTypes, Stage, Response
<1>1. ASSUME NEW s \in Streams, Connect(s) \/ Disconnect(s)
      PROVE  HandlerTypes'
  BY <1>1 DEF Connect, Disconnect, EndStreams
<1>2. ASSUME NEW r \in Orders, Receive(r) \/ ProcessStep(r)
      PROVE  HandlerTypes'
  BY <1>2
  DEF Receive, Validated, ProcessStep, Decide, StageTo, CheckRateLimit,
      FirstRule, CheckPriceRules, CheckDuplicate, FoundNone, SetFingerprint, RefuseSymbol,
      CallExecute, Execute, handlerVars, Respond, Verdict
<1>3. ASSUME NEW f \in Fingerprints, ExpireFingerprint(f)
      PROVE  HandlerTypes'
  BY <1>3 DEF ExpireFingerprint, handlerVars
<1>4. CASE Cancel \/ Start \/ Signal
  BY <1>4 DEF Cancel, Start, Signal, handlerVars
<1>5. CASE ForceStop \/ Exit \/ Crash
  BY <1>5 DEF ForceStop, Exit, Crash, Gone, EndStreams
<1>6. CASE UNCHANGED vars
  BY <1>6 DEF vars, handlerVars
<1> QED
  BY <1>1, <1>2, <1>3, <1>4, <1>5, <1>6 DEF Next

\* Only Respond writes an answer, and it says ACCEPTED where Execute returned
\* without an error, which no later step takes back.
LEMMA NextAccepted ==
  ASSUME ExecInv, HandlerTypes, Accepted, [Next]_vars
  PROVE  Accepted'
<1>1. \A r \in Orders : pc[r] = "ok" => pc'[r] = "ok"
  BY PipelineStep, SameNext, CallsAssumptions, Calls!ReturnedIsFinal DEF ExecInv
<1>2. ASSUME UNCHANGED response
      PROVE  Accepted'
  BY <1>1, <1>2 DEF Accepted
<1>3. ASSUME NEW r \in Orders, Respond(r)
      PROVE  Accepted'
  <2>1. \A q \in Orders : response'[q] = "ACCEPTED" =>
          response[q] = "ACCEPTED" \/ pc[q] = "ok"
    BY <1>3 DEF Respond, Verdict, HandlerTypes
  <2> QED
    BY <1>1, <2>1 DEF Accepted
<1>4. ASSUME NEW s \in Streams, Connect(s) \/ Disconnect(s)
      PROVE  UNCHANGED response
  BY <1>4 DEF Connect, Disconnect
<1>5. ASSUME NEW r \in Orders, Receive(r) \/ ProcessStep(r), ~Respond(r)
      PROVE  UNCHANGED response
  BY <1>5
  DEF Receive, ProcessStep, Decide, CheckRateLimit, CheckPriceRules,
      CheckDuplicate, FoundNone, SetFingerprint, RefuseSymbol, CallExecute, Execute,
      handlerVars
<1>6. ASSUME NEW f \in Fingerprints, ExpireFingerprint(f)
      PROVE  UNCHANGED response
  BY <1>6 DEF ExpireFingerprint, handlerVars
<1>7. CASE Cancel \/ Start \/ Signal \/ ForceStop \/ Exit \/ Crash
  BY <1>7, <1>2 DEF Cancel, Start, Signal, ForceStop, Exit, Crash, Gone,
                    handlerVars
<1>8. CASE UNCHANGED vars
  BY <1>8, <1>2 DEF vars, handlerVars
<1> QED
  BY <1>2, <1>3, <1>4, <1>5, <1>6, <1>7, <1>8 DEF Next, ProcessStep

-----------------------------------------------------------------------------
\* Only the steps of the duplicate rule and the passing of its window change
\* what is known of fingerprints.
LEMMA OtherSteps ==
  ASSUME [Next]_vars,
         \A r \in Orders : ~CheckDuplicate(r) /\ ~SetFingerprint(r),
         \A f \in Fingerprints : ~ExpireFingerprint(f)
  PROVE  UNCHANGED riskVars
<1> USE DEF riskVars
<1>1. ASSUME NEW s \in Streams, Connect(s) \/ Disconnect(s)
      PROVE  UNCHANGED riskVars
  BY <1>1 DEF Connect, Disconnect
<1>2. ASSUME NEW r \in Orders, Receive(r) \/ ProcessStep(r)
      PROVE  UNCHANGED riskVars
  BY <1>2
  DEF Receive, ProcessStep, Decide, CheckRateLimit, CheckPriceRules, RefuseSymbol,
      CallExecute, Execute, Respond
<1>3. CASE Cancel \/ Start \/ Signal \/ ForceStop
  BY <1>3 DEF Cancel, Start, Signal, ForceStop
<1>4. CASE Exit \/ Crash
  BY <1>4 DEF Exit, Crash, Gone
<1>5. CASE UNCHANGED vars
  BY <1>5 DEF vars
<1> QED
  BY <1>1, <1>2, <1>3, <1>4, <1>5 DEF Next

\* An order that is neither refused nor stopped leaves its key or the mark
\* that its SET failed, until the window has passed.
LEMMA NextRiskInv ==
  ASSUME RiskTypes, RiskInv, [Next]_vars
  PROVE  RiskTypes' /\ RiskInv'
<1> USE DEF RiskTypes, RiskInv
<1>0. \A r \in Orders : FingerprintOf(r) \in Fingerprints
  BY PipelineAssumption DEF FingerprintOf, Fingerprints, UserOf
<1>1. CASE UNCHANGED riskVars
  BY <1>1 DEF riskVars
<1>2. ASSUME NEW r \in Orders, CheckDuplicate(r)
      PROVE  RiskTypes' /\ RiskInv'
  <2>1. CASE Decide(r, "dupCheck", {"reject"})
    BY <2>1, <1>1 DEF Decide
  <2>2. CASE ~key[FingerprintOf(r)] /\ FoundNone(r)
    BY <1>0, <2>2 DEF FoundNone
  <2> QED
    BY <1>2, <2>1, <2>2 DEF CheckDuplicate
<1>3. ASSUME NEW f \in Fingerprints, ExpireFingerprint(f)
      PROVE  RiskTypes' /\ RiskInv'
  BY <1>3 DEF ExpireFingerprint
<1>4. ASSUME NEW r \in Orders, SetFingerprint(r)
      PROVE  RiskTypes' /\ RiskInv'
  <2>1. CASE key' = [key EXCEPT ![FingerprintOf(r)] = TRUE] /\ UNCHANGED unset
    BY <1>0, <1>4, <2>1 DEF SetFingerprint
  <2>2. CASE unset' = unset \cup {r} /\ UNCHANGED key
    BY <1>0, <1>4, <2>2 DEF SetFingerprint
  <2> QED
    BY <1>4, <2>1, <2>2 DEF SetFingerprint
<1> QED
  BY <1>1, <1>2, <1>3, <1>4, OtherSteps

\* What a step of Execute does to its own request and to the others.
LEMMA ExecuteKeeps ==
  ASSUME ExecInv, NEW r \in Orders, Execute(r)
  PROVE  /\ pc[r] \in Calls!Running
         /\ \E l : l # "idle" /\ pc' = [pc EXCEPT ![r] = l]
         /\ pc'[r] = "error" /\ placed'[r] > 0 => attempt'[r] = MaxRetries + 1
         /\ \A q \in Orders : q # r => placed'[q] = placed[q] /\ attempt'[q] = attempt[q]
<1> DEFINE Kept == UNCHANGED <<placed, attempt>>
           Moved(l) == pc' = [pc EXCEPT ![r] = l]
<1>0. /\ Calls!OrderInv(r) /\ MaxRetries \in Nat
      /\ pc \in [Orders -> Calls!ExecPC]
      /\ placed \in [Orders -> Nat] /\ attempt \in [Orders -> Nat]
  BY PipelineAssumption DEF ExecInv, Calls!IInv, Calls!TypeOK
<1>1. CASE Exec!CreateOrder(r)
  <2>1. pc[r] = "create" /\ Kept /\ (Moved("submit") \/ Moved("error"))
    BY <1>1 DEF Exec!CreateOrder, Exec!At, Exec!Goto, Exec!brokerVars
  <2>2. attempt[r] = 0 /\ placed[r] = 0
    BY <1>0, <2>1 DEF Calls!OrderInv
  <2> QED
    BY <1>0, <2>1, <2>2 DEF Calls!Running
<1>2. CASE Exec!SubmitAnswered(r)
  <2>1. /\ pc[r] = "submit" /\ Moved("saveExecution")
        /\ placed' = [placed EXCEPT ![r] = @ + 1]
        /\ attempt' = [attempt EXCEPT ![r] = @ + 1]
    BY <1>2 DEF Exec!SubmitAnswered, Exec!At, Exec!Goto
  <2> QED
    BY <1>0, <2>1 DEF Calls!Running
<1>3. CASE Exec!SubmitAnswerLost(r) \/ Exec!SubmitNotTaken(r)
  <2>1. /\ pc[r] = "submit" /\ (Moved("markRejected") \/ Moved("submit"))
        /\ placed' = placed \/ placed' = [placed EXCEPT ![r] = @ + 1]
        /\ attempt' = [attempt EXCEPT ![r] = @ + 1]
    BY <1>3
    DEF Exec!SubmitAnswerLost, Exec!SubmitNotTaken, Exec!Retry, Exec!At, Exec!Goto,
        Exec!brokerVars
  <2> QED
    BY <1>0, <2>1 DEF Calls!Running
<1>4. CASE Exec!SaveExecution(r) \/ Exec!MarkSent(r) \/ Exec!PublishSent(r)
            \/ Exec!MarkRejected(r)
  <2>1. /\ pc[r] \in {"saveExecution", "markSent", "publishSent", "markRejected"} /\ Kept
        /\ \/ Moved("markSent") \/ Moved("publishSent") \/ Moved("ok")
           \/ Moved("publishRejected")
    BY <1>4
    DEF Exec!SaveExecution, Exec!MarkSent, Exec!PublishSent, Exec!MarkRejected,
        Exec!UpdateOrderStatus, Exec!At, Exec!Goto, Exec!brokerVars
  <2> QED
    BY <1>0, <2>1 DEF Calls!Running
<1>5. CASE Exec!PublishRejected(r)
  <2>1. pc[r] = "publishRejected" /\ Kept /\ Moved("error")
    BY <1>5 DEF Exec!PublishRejected, Exec!At, Exec!Goto, Exec!brokerVars
  <2> QED
    BY <1>0, <2>1 DEF Calls!OrderInv, Calls!Rejecting, Calls!Running
<1> QED
  BY <1>1, <1>2, <1>3, <1>4, <1>5 DEF Execute, Exec!ExecuteStep

\* The client's stream, the request's stage and its call of Execute stay in step,
\* whoever leaves, stops or dies.
LEMMA NextStopInv ==
  ASSUME ExecInv, HandlerTypes, StopInv, [Next]_vars
  PROVE  StopInv'
<1> DEFINE Quiet == UNCHANGED <<pc, placed, attempt>>
<1> USE DEF StopInv
<1>0. /\ \A r \in Orders : StreamOf[r] \in Streams
      /\ stage \in [Orders -> Stage] /\ response \in [Orders -> Response]
      /\ stream \in [Streams -> {"new", "open", "closed"}]
      /\ pc \in [Orders -> Calls!ExecPC]
  BY PipelineAssumption DEF HandlerTypes, ExecInv, Calls!IInv, Calls!TypeOK
<1>1. ASSUME Quiet, UNCHANGED <<stage, response>>,
             \A s \in Streams : /\ stream[s] # "new" => stream'[s] # "new"
                                /\ stream[s] = "closed" => stream'[s] = "closed"
      PROVE  StopInv'
  BY <1>0, <1>1
<1>2. ASSUME NEW s \in Streams, Connect(s) \/ Disconnect(s)
      PROVE  StopInv'
  <2>1. Quiet /\ UNCHANGED <<stage, response>>
    BY <1>2
    DEF Connect, Disconnect, EndStreams, Exec!EndContexts, executorVars, Exec!execVars,
        Exec!brokerVars
  <2>2. \A x \in Streams : /\ stream[x] # "new" => stream'[x] # "new"
                           /\ stream[x] = "closed" => stream'[x] = "closed"
    BY <1>0, <1>2 DEF Connect, Disconnect, EndStreams
  <2> QED
    BY <1>1, <2>1, <2>2
<1>3. ASSUME NEW r \in Orders, Receive(r)
      PROVE  StopInv'
  <2>1. /\ stage[r] = "unsent" /\ stream[StreamOf[r]] = "open"
        /\ stage' = [stage EXCEPT ![r] = "rateLimit"] \/ stage' = [stage EXCEPT ![r] = "reject"]
        /\ Quiet /\ UNCHANGED <<stream, response>>
    BY <1>3 DEF Receive, Validated, Decide, StageTo, executorVars
  <2> QED
    BY <1>0, <2>1
<1>4. ASSUME NEW r \in Orders, ProcessStep(r), ~CallExecute(r), ~Execute(r), ~Respond(r)
      PROVE  StopInv'
  <2>1. /\ stage[r] \notin {"unsent", "execute", "done", "crashed"}
        /\ Quiet /\ UNCHANGED <<stream, response>>
        /\ \E l \in InFlight \ {"execute"} : stage' = [stage EXCEPT ![r] = l]
    <3>1. CASE CheckRateLimit(r) \/ CheckPriceRules(r) \/ RefuseSymbol(r)
      BY <3>1
      DEF CheckRateLimit, CheckPriceRules, RefuseSymbol, FirstRule, Decide, StageTo,
          executorVars, InFlight, Stage
    <3>2. CASE CheckDuplicate(r)
      BY <3>2
      DEF CheckDuplicate, FoundNone, Decide, StageTo, executorVars, InFlight, Stage
    <3>3. CASE SetFingerprint(r)
      BY <3>3 DEF SetFingerprint, StageTo, executorVars, InFlight, Stage
    <3> QED
      BY <1>4, <3>1, <3>2, <3>3 DEF ProcessStep
  <2> QED
    BY <1>0, <2>1 DEF InFlight
<1>5. ASSUME NEW r \in Orders, CallExecute(r)
      PROVE  StopInv'
  <2>1. /\ stage[r] = "symbol" /\ stage' = [stage EXCEPT ![r] = "execute"]
        /\ pc' = [pc EXCEPT ![r] = "create"]
        /\ UNCHANGED <<stream, response, placed, attempt>>
    BY <1>5 DEF CallExecute, StageTo, Exec!Begin, Exec!Goto, Exec!brokerVars
  <2> QED
    BY <1>0, <2>1
<1>6. ASSUME NEW r \in Orders, Execute(r)
      PROVE  StopInv'
  <2>1. UNCHANGED <<stage, stream, response>>
    BY <1>6 DEF Execute, handlerVars
  <2>2. pc[r] \notin {"idle", "error"}
    BY <1>6, ExecuteKeeps DEF Calls!Running
  <2>3. ASSUME NEW q \in Orders, q # r
        PROVE  /\ pc'[q] = pc[q] /\ placed'[q] = placed[q] /\ attempt'[q] = attempt[q]
    BY <1>0, <1>6, <2>3, ExecuteKeeps
  <2>4. pc'[r] # "idle" /\ (pc'[r] = "error" /\ placed'[r] > 0
                               => attempt'[r] = MaxRetries + 1)
    BY <1>0, <1>6, ExecuteKeeps
  <2> QED
    BY <2>1, <2>2, <2>3, <2>4
<1>7. ASSUME NEW r \in Orders, Respond(r)
      PROVE  StopInv'
  <2>1. /\ stage' = [stage EXCEPT ![r] = "done"] /\ Quiet /\ UNCHANGED stream
        /\ stage[r] \in {"reject", "execute"}
        /\ stage[r] = "execute" => pc[r] \in {"ok", "error"}
        /\ \A q \in Orders : q # r => response'[q] = response[q]
        /\ response'[r] = "REJECTED" => ~(stage[r] = "execute" /\ pc[r] = "ok")
    BY <1>0, <1>7 DEF Respond, Verdict, StageTo, executorVars
  <2> QED
    BY <1>0, <2>1
<1>8. CASE Exit \/ Crash
  <2>1. /\ UNCHANGED <<response, placed, attempt>>
        /\ pc' = [r \in Orders |-> IF pc[r] \in Calls!Running THEN "crashed" ELSE pc[r]]
        /\ stage' = [r \in Orders |-> IF stage[r] \in InFlight THEN "crashed"
                                                               ELSE stage[r]]
    BY <1>8 DEF Exit, Crash, Gone, Exec!Crash, Exec!Running, Calls!Running, Exec!brokerVars
  <2>2. \A s \in Streams : /\ stream[s] # "new" => stream'[s] = "closed"
                           /\ stream[s] = "new" => stream'[s] = "new"
    BY <1>0, <1>8 DEF Exit, Crash, OpenStreams
  <2> QED
    BY <1>0, <2>1, <2>2 DEF InFlight, Stage, Calls!Running
<1>9. CASE ForceStop
  <2>1. Quiet /\ UNCHANGED <<stage, response>>
    BY <1>9
    DEF ForceStop, EndStreams, Exec!EndContexts, Exec!execVars, Exec!brokerVars
  <2>2. \A x \in Streams : /\ stream[x] # "new" => stream'[x] # "new"
                           /\ stream[x] = "closed" => stream'[x] = "closed"
    BY <1>0, <1>9 DEF ForceStop, EndStreams
  <2> QED
    BY <1>1, <2>1, <2>2
<1>10. CASE Cancel
  <2>1. UNCHANGED <<stage, response, stream>>
    BY <1>10 DEF Cancel, handlerVars
  <2>2. Quiet
    BY <1>10
    DEF Cancel, Exec!CancelStep, Exec!CancelAtBroker, Exec!CancelUpdateStatus,
        Exec!CancelPublish, Exec!CancelGetOrder, Exec!execVars, Exec!brokerVars
  <2> QED
    BY <1>1, <2>1, <2>2
<1>11. CASE Start \/ Signal \/ UNCHANGED vars
  <2>1. Quiet /\ UNCHANGED <<stage, response, stream>>
    BY <1>11 DEF Start, Signal, executorVars, vars, handlerVars
  <2> QED
    BY <1>1, <2>1
<1>12. ASSUME NEW f \in Fingerprints, ExpireFingerprint(f)
       PROVE  StopInv'
  <2>1. Quiet /\ UNCHANGED <<stage, response, stream>>
    BY <1>12 DEF ExpireFingerprint, handlerVars, executorVars
  <2> QED
    BY <1>1, <2>1
<1> HIDE DEF StopInv
<1>13. ASSUME NEW r \in Orders, Receive(r) \/ ProcessStep(r)
       PROVE  StopInv'
  BY <1>13, <1>3, <1>4, <1>5, <1>6, <1>7
<1> QED
  BY <1>2, <1>8, <1>9, <1>10, <1>11, <1>12, <1>13 DEF Next

IInv == ExecInv /\ HandlerTypes /\ RiskTypes /\ Accepted /\ RiskInv /\ StopInv

\* Spec keeps the executor's facts, the types, the answers and the windows.
THEOREM IInvInvariant == Spec => []IInv
<1>1. Init => IInv
  <2> SUFFICES ASSUME Init
               PROVE  IInv
    OBVIOUS
  <2>1. ExecInv
    BY InitExecInv DEF Init
  <2>2. HandlerTypes /\ RiskTypes /\ Accepted
    BY DEF Init, HandlerTypes, RiskTypes, Accepted, Stage, Response
  <2>3. RiskInv
    BY DEF Init, RiskInv
  <2>4. StopInv
    BY DEF Init, Exec!Init, StopInv
  <2> QED
    BY <2>1, <2>2, <2>3, <2>4 DEF IInv
<1>2. IInv /\ [Next]_vars => IInv'
  <2> SUFFICES ASSUME IInv, [Next]_vars
               PROVE  IInv'
    OBVIOUS
  <2>1. ExecInv'
    BY PipelineStep, NextExecInv DEF IInv
  <2>2. HandlerTypes'
    BY NextHandlerTypes DEF IInv
  <2>3. RiskTypes' /\ RiskInv'
    BY NextRiskInv DEF IInv
  <2>4. Accepted'
    BY NextAccepted DEF IInv
  <2>5. StopInv'
    BY NextStopInv DEF IInv
  <2> QED
    BY <2>1, <2>2, <2>3, <2>4, <2>5 DEF IInv
<1> QED
  BY <1>1, <1>2, PTL DEF Spec

\* The types of OrderExecutor as the pipeline and as the proofs name them.
LEMMA SameTypes == Exec!TypeOK <=> Calls!TypeOK
  BY DEF Exec!TypeOK, Calls!TypeOK, Exec!ExecPC, Calls!ExecPC, Exec!CancelPC,
         Calls!CancelPC, Exec!Running, Calls!Running, Exec!Cancelling,
         Calls!Cancelling, Exec!Status, Calls!Status

\* A client that is told ACCEPTED has an order at the broker and a row in the
\* table (handler.go:160-170), for any number of clients, requests and
\* cancellations and every pattern of failures, stops and crashes.
THEOREM AcceptedIsRealInvariant == Spec => []AcceptedIsReal
<1>1. ASSUME IInv
      PROVE  AcceptedIsReal
  <2>1. TypeOK
    BY <1>1, SameTypes
    DEF IInv, ExecInv, Calls!IInv, HandlerTypes, RiskTypes, TypeOK
  <2>2. ASSUME NEW r \in Orders, response[r] = "ACCEPTED"
        PROVE  placed[r] > 0 /\ status[r] # "none"
    <3>1. pc[r] = "ok" /\ Calls!OrderInv(r) /\ Calls!TypeOK
      BY <1>1, <2>2 DEF IInv, Accepted, ExecInv, Calls!IInv
    <3> QED
      BY <3>1 DEF Calls!OrderInv, Calls!Answered, Calls!TypeOK
  <2> QED
    BY <2>1, <2>2 DEF AcceptedIsReal
<1> QED
  BY <1>1, IInvInvariant, PTL

\* The row of an order that a client was told is ACCEPTED says SENT or CANCELLED
\* unless a failed statement was passed over (order_executor.go:78-90).
THEOREM AcceptedIsRecordedInvariant == Spec => []AcceptedIsRecorded
<1>1. ASSUME IInv, NEW r \in Orders, response[r] = "ACCEPTED", ~logged[r]
      PROVE  status[r] \in {"SENT", "CANCELLED"}
  <2>1. pc[r] = "ok" /\ Calls!Recorded(r)
    BY <1>1 DEF IInv, Accepted, ExecInv, Calls!RecordedInv
  <2> QED
    BY <2>1 DEF Calls!Recorded
<1>2. IInv => AcceptedIsRecorded
  BY <1>1 DEF AcceptedIsRecorded
<1> QED
  BY <1>2, IInvInvariant, PTL

\* Of two orders with one fingerprint in one window the second passes the
\* duplicate rule after the first only if the first one's SET failed
\* (rules.go:247-266), for any number of concurrent orders.
THEOREM RepeatsHaveACauseInvariant == Spec => []RepeatsHaveACause
<1>1. IInv => RepeatsHaveACause
  BY DEF IInv, RiskTypes, RiskInv, RepeatsHaveACause
<1> QED
  BY <1>1, IInvInvariant, PTL

\* A stop cuts no request off whose client still waits (server.go:103-127), and
\* an order at the broker under a REJECTED answer has used up its retries
\* (handler.go:160-170), for any number of clients, stops and restarts.
THEOREM UnansweredExplainedInvariant == Spec => []UnansweredExplained
<1>1. ASSUME IInv, NEW r \in Orders, response[r] = "REJECTED"
      PROVE  /\ placed[r] > 0 => attempt[r] = MaxRetries + 1
             /\ status[r] # "SENT" /\ brokerId[r] = 0
  <2>1. /\ pc[r] \in {"idle", "error"}
        /\ pc[r] = "error" /\ placed[r] > 0 => attempt[r] = MaxRetries + 1
    BY <1>1 DEF IInv, StopInv
  <2>2. Calls!OrderInv(r) /\ Calls!TypeOK
    BY <1>1 DEF IInv, ExecInv, Calls!IInv
  <2>3. kisId[r] = 0 /\ brokerId[r] \in Nat /\ placed[r] \in Nat
    BY <2>1, <2>2, PipelineAssumption DEF Calls!OrderInv, Calls!TypeOK
  <2>4. pc[r] = "idle" => placed[r] = 0
    BY <2>2, <2>3 DEF Calls!OrderInv
  <2> QED
    BY <2>1, <2>2, <2>3, <2>4 DEF Calls!OrderInv
<1>2. IInv => UnansweredExplained
  BY <1>1 DEF IInv, StopInv, UnansweredExplained
<1> QED
  BY <1>2, IInvInvariant, PTL
-----------------------------------------------------------------------------
(* How processOrder gets on: what is left of liveness without fairness.     *)

\* The steps that are left to a request at most: the rules before Execute in the order
\* of registerRules, the calls of Execute, and the response.
RequestLeft(r) ==
  CASE stage[r] = "unsent" -> MaxRetries + 13
    [] stage[r] = "rateLimit" -> MaxRetries + 12
    [] stage[r] = "priceRules" -> MaxRetries + 11
    [] stage[r] = "dupCheck" -> MaxRetries + 10
    [] stage[r] = "dupSet" -> MaxRetries + 9
    [] stage[r] = "symbol" -> MaxRetries + 8
    [] stage[r] = "execute" -> Calls!StepsLeft(r) + 1
    [] stage[r] = "reject" -> 1
    [] OTHER -> 0

\* A call of Execute runs inside the handler of its own request only.
NestInv == \A r \in Orders : pc[r] \in Calls!Running => stage[r] = "execute"

LEMMA NextNestInv ==
  ASSUME IInv, NestInv, [Next]_vars
  PROVE  NestInv'
<1> USE DEF NestInv
<1>0. stage \in [Orders -> Stage] /\ pc \in [Orders -> Calls!ExecPC]
  BY DEF IInv, HandlerTypes, ExecInv, Calls!IInv, Calls!TypeOK
<1>1. ASSUME NEW r \in Orders, CallExecute(r)
      PROVE  NestInv'
  BY <1>0, <1>1 DEF CallExecute, StageTo, Exec!Begin, Exec!Goto, Exec!At
<1>2. ASSUME NEW r \in Orders, Execute(r)
      PROVE  NestInv'
  <2>1. pc[r] \in Calls!Running /\ UNCHANGED stage
        /\ \E l : pc' = [pc EXCEPT ![r] = l]
    BY <1>2
    DEF Execute, handlerVars, Exec!ExecuteStep, Exec!CreateOrder, Exec!SubmitAnswered,
        Exec!SubmitAnswerLost, Exec!SubmitNotTaken, Exec!Retry, Exec!SaveExecution,
        Exec!MarkSent, Exec!MarkRejected, Exec!UpdateOrderStatus, Exec!PublishSent,
        Exec!PublishRejected, Exec!Goto, Exec!At, Calls!Running
  <2> QED
    BY <1>0, <2>1
<1>3. ASSUME NEW r \in Orders, Receive(r) \/ ProcessStep(r), ~CallExecute(r), ~Execute(r)
      PROVE  NestInv'
  <2>1. /\ UNCHANGED pc /\ \E l : stage' = [stage EXCEPT ![r] = l]
        /\ stage[r] # "execute" \/ pc[r] \in {"ok", "error"}
    <3>1. CASE SetFingerprint(r)
      BY <3>1 DEF SetFingerprint, StageTo, executorVars
    <3>2. CASE CheckDuplicate(r)
      BY <3>2 DEF CheckDuplicate, FoundNone, Decide, StageTo, executorVars
    <3>3. CASE Receive(r) \/ CheckRateLimit(r) \/ CheckPriceRules(r) \/ RefuseSymbol(r)
      BY <3>3
      DEF Receive, CheckRateLimit, CheckPriceRules, RefuseSymbol, Decide, StageTo,
          executorVars
    <3>4. CASE Respond(r)
      BY <3>4 DEF Respond, StageTo, executorVars
    <3> QED
      BY <1>3, <3>1, <3>2, <3>3, <3>4 DEF ProcessStep
  <2> QED
    BY <1>0, <2>1 DEF Calls!Running
<1>4. ASSUME Exit \/ Crash
      PROVE  NestInv'
  BY <1>0, <1>4 DEF Exit, Crash, Gone, Exec!Crash, Exec!Running, Calls!Running
<1>5. ASSUME UNCHANGED <<pc, stage>>
      PROVE  NestInv'
  BY <1>5
<1>6. Next \/ UNCHANGED vars =>
        \/ UNCHANGED <<pc, stage>> \/ Exit \/ Crash
        \/ \E r \in Orders : Receive(r) \/ ProcessStep(r)
  BY DEF Next, Connect, Disconnect, EndStreams, Exec!EndContexts, ExpireFingerprint, Cancel,
         Exec!CancelStep, Exec!CancelAtBroker, Exec!CancelUpdateStatus,
         Exec!CancelPublish, Exec!CancelGetOrder, Exec!execVars, Start, Signal,
         ForceStop, handlerVars, executorVars, vars
<1> QED
  BY <1>1, <1>2, <1>3, <1>4, <1>5, <1>6

\* Neither the executor nor anybody else takes a request back.
LEMMA RequestNeverRaised ==
  ASSUME IInv, IInv', NestInv, [Next]_vars, NEW r \in Orders
  PROVE  /\ RequestLeft(r) \in Nat /\ RequestLeft(r)' \in Nat
         /\ RequestLeft(r)' <= RequestLeft(r)
         /\ ProcessStep(r) => RequestLeft(r)' < RequestLeft(r)
<1>0. /\ stage \in [Orders -> Stage] /\ stage' \in [Orders -> Stage]
      /\ MaxRetries \in Nat /\ Calls!IInv /\ Calls!IInv'
  BY PipelineAssumption DEF IInv, HandlerTypes, ExecInv
<1>1. /\ Calls!StepsLeft(r) \in Nat /\ Calls!StepsLeft(r)' \in Nat
      /\ Calls!StepsLeft(r)' <= Calls!StepsLeft(r)
  BY <1>0, PipelineStep, SameNext, CallsAssumptions, Calls!StepsNeverRaised
<1>2. RequestLeft(r) \in Nat /\ RequestLeft(r)' \in Nat
  BY <1>0, <1>1 DEF RequestLeft
<1>3. ASSUME stage'[r] = stage[r]
      PROVE  RequestLeft(r)' <= RequestLeft(r)
  <2>1. CASE stage[r] = "execute"
    BY <1>1, <1>3, <2>1 DEF RequestLeft
  <2>2. CASE stage[r] # "execute"
    <3>1. RequestLeft(r)' = RequestLeft(r)
      BY <1>3, <2>2 DEF RequestLeft
    <3> QED
      BY <1>2, <3>1
  <2> QED
    BY <2>1, <2>2
<1>4. ASSUME Receive(r)
      PROVE  RequestLeft(r)' < RequestLeft(r)
  BY <1>0, <1>4 DEF Receive, Decide, StageTo, Validated, RequestLeft
<1>5. ASSUME ProcessStep(r)
      PROVE  RequestLeft(r)' < RequestLeft(r)
  <2>1. CASE CheckRateLimit(r)
    <3>1. stage[r] = "rateLimit" /\ stage'[r] \in {"reject", "priceRules", "symbol"}
      BY <1>0, <2>1 DEF CheckRateLimit, Decide, StageTo, FirstRule
    <3> QED
      BY <1>0, <3>1 DEF RequestLeft
  <2>2. CASE CheckPriceRules(r)
    <3>1. stage[r] = "priceRules" /\ stage'[r] \in {"reject", "dupCheck"}
      BY <1>0, <2>2 DEF CheckPriceRules, Decide, StageTo
    <3> QED
      BY <1>0, <3>1 DEF RequestLeft
  <2>3. CASE CheckDuplicate(r)
    <3>1. stage[r] = "dupCheck" /\ stage'[r] \in {"reject", "dupSet"}
      BY <1>0, <2>3 DEF CheckDuplicate, FoundNone, Decide, StageTo
    <3> QED
      BY <1>0, <3>1 DEF RequestLeft
  <2>4. CASE SetFingerprint(r)
    <3>1. stage[r] = "dupSet" /\ stage'[r] = "symbol"
      BY <1>0, <2>4 DEF SetFingerprint, StageTo
    <3> QED
      BY <1>0, <3>1 DEF RequestLeft
  <2>5. CASE RefuseSymbol(r)
    <3>1. stage[r] = "symbol" /\ stage'[r] = "reject"
      BY <1>0, <2>5 DEF RefuseSymbol, Decide, StageTo
    <3> QED
      BY <1>0, <3>1 DEF RequestLeft
  <2>6. CASE CallExecute(r)
    <3>1. stage[r] = "symbol" /\ stage'[r] = "execute" /\ pc[r] = "idle"
      BY <1>0, <2>6 DEF CallExecute, StageTo, Exec!Begin, Exec!At
    <3>2. Calls!StepsLeft(r) = MaxRetries + 6
      BY <3>1 DEF Calls!StepsLeft
    <3> QED
      BY <1>0, <1>1, <3>1, <3>2 DEF RequestLeft
  <2>7. CASE Execute(r)
    <3>1. Calls!ExecuteStep(r) /\ stage' = stage
      BY <2>7
      DEF Execute, handlerVars, Exec!ExecuteStep, Calls!ExecuteStep, Exec!CreateOrder,
          Calls!CreateOrder, Exec!SubmitAnswered, Calls!SubmitAnswered,
          Exec!SubmitAnswerLost, Calls!SubmitAnswerLost, Exec!SubmitNotTaken,
          Calls!SubmitNotTaken, Exec!Retry, Calls!Retry, Exec!SaveExecution,
          Calls!SaveExecution, Exec!UpdateOrderStatus, Calls!UpdateOrderStatus,
          Exec!MarkSent, Calls!MarkSent, Exec!MarkRejected, Calls!MarkRejected,
          Exec!PublishOrderEvent, Calls!PublishOrderEvent, Exec!PublishSent,
          Calls!PublishSent, Exec!PublishRejected, Calls!PublishRejected,
          Exec!DbOutcomes, Calls!DbOutcomes, Exec!Applied, Calls!Applied, Exec!Goto,
          Calls!Goto, Exec!At, Calls!At, Exec!tableVars, Calls!tableVars,
          Exec!brokerVars, Calls!brokerVars, Exec!cancelVars, Calls!cancelVars
    <3>2. stage[r] = "execute"
      <4>1. pc[r] \in Calls!Running
        BY <3>1
        DEF Calls!ExecuteStep, Calls!CreateOrder, Calls!SubmitAnswered,
            Calls!SubmitAnswerLost, Calls!SubmitNotTaken, Calls!SaveExecution,
            Calls!MarkSent, Calls!MarkRejected, Calls!PublishSent,
            Calls!PublishRejected, Calls!At, Calls!Running
      <4> QED
        BY <4>1 DEF NestInv
    <3>3. Calls!StepsLeft(r)' < Calls!StepsLeft(r)
      BY <1>0, <3>1, CallsAssumptions, Calls!ExecuteStepDescends
    <3> QED
      BY <1>1, <3>1, <3>2, <3>3 DEF RequestLeft
  <2>8. CASE Respond(r)
    <3>1. stage[r] \in {"reject", "execute"} /\ stage'[r] = "done"
      BY <1>0, <2>8 DEF Respond, StageTo
    <3> QED
      BY <1>1, <3>1 DEF RequestLeft
  <2> QED
    BY <1>5, <2>1, <2>2, <2>3, <2>4, <2>5, <2>6, <2>7, <2>8 DEF ProcessStep
<1>6. ASSUME NEW q \in Orders, q # r, Receive(q) \/ ProcessStep(q)
      PROVE  stage'[r] = stage[r]
  <2>1. stage' = stage \/ \E l : stage' = [stage EXCEPT ![q] = l]
    BY <1>6
    DEF Receive, ProcessStep, Decide, StageTo, CheckRateLimit, CheckPriceRules,
        CheckDuplicate, FoundNone, SetFingerprint, RefuseSymbol, CallExecute, Execute, Respond,
        handlerVars
  <2> QED
    BY <1>0, <1>6, <2>1
<1>7. ASSUME Exit \/ Crash
      PROVE  RequestLeft(r)' <= RequestLeft(r)
  <2>1. stage'[r] = stage[r] \/ stage'[r] = "crashed"
    BY <1>7 DEF Exit, Crash, Gone
  <2>2. ASSUME stage'[r] = "crashed"
        PROVE  RequestLeft(r)' = 0
    BY <2>2 DEF RequestLeft
  <2> QED
    BY <1>2, <1>3, <2>1, <2>2
<1>8. RequestLeft(r)' <= RequestLeft(r)
  <2>1. CASE stage' = stage
    BY <1>3, <2>1
  <2>2. CASE \E q \in Orders : Receive(q) \/ ProcessStep(q)
    BY <1>2, <1>3, <1>4, <1>5, <1>6, <2>2
  <2>3. stage' = stage \/ Exit \/ Crash \/ \E q \in Orders : Receive(q) \/ ProcessStep(q)
    BY DEF Next, Connect, Disconnect, ExpireFingerprint, Cancel, Start, Signal, ForceStop,
           handlerVars, vars
  <2> QED
    BY <1>7, <2>1, <2>2, <2>3
<1> QED
  BY <1>2, <1>5, <1>8

\* A request that was received comes to its answer in at most MaxRetries + 12 steps of its
\* own handler (handler.go:111-170), however the rules, the broker, the table and its stream
\* fail: each step of the handler lowers RequestLeft, and no other request, client, Cancel,
\* stop or crash raises it.  What fairness has to give is only that they are taken.
THEOREM RequestProgress ==
  Spec => [][\A r \in Orders :
               /\ RequestLeft(r)' <= RequestLeft(r)
               /\ ProcessStep(r) => RequestLeft(r)' < RequestLeft(r)]_vars
<1>1. Init => NestInv
  BY DEF Init, Exec!Init, NestInv, Calls!Running
<1>2. IInv /\ IInv' /\ NestInv /\ [Next]_vars =>
        [\A r \in Orders :
           /\ RequestLeft(r)' <= RequestLeft(r)
           /\ ProcessStep(r) => RequestLeft(r)' < RequestLeft(r)]_vars
  BY RequestNeverRaised
<1>3. IInv /\ NestInv /\ [Next]_vars => NestInv'
  BY NextNestInv
<1> QED
  BY <1>1, <1>2, <1>3, IInvInvariant, PTL DEF Spec

-----------------------------------------------------------------------------
\* What is proved about the calls, for callers that read their ids from the table.
Given == INSTANCE OrderExecutorProofs
  WITH Orders <- TableOrders, Cancellers <- TableCancellers, NoOrder <- TableNone,
       MaxRetries <- TableRetries, LearnsFrom <- "table",
       pc <- tPc, attempt <- tAttempt, kisId <- tKisId, status <- tStatus,
       brokerId <- tBrokerId, placed <- tPlaced, withdrawn <- tWithdrawn,
       events <- tEvents, logged <- tLogged, ctxDone <- tCtxDone,
       cpc <- tCpc, target <- tTarget, readId <- tReadId

LEMMA GivenAssumptions == /\ Given!OrdersAssumption
                          /\ Given!RetriesAssumption
                          /\ Given!LearnsAssumption
  BY CallersAssumption
  DEF Given!OrdersAssumption, Given!RetriesAssumption, Given!LearnsAssumption

LEMMA SameTableInit == Table!Init <=> Given!Init
  BY DEF Table!Init, Given!Init

LEMMA SameTableNext == [Table!Next]_(Table!vars) <=> [Given!Next]_(Given!vars)
  BY
  DEF Table!Next, Given!Next, Table!ExecuteStep, Given!ExecuteStep, Table!CancelStep,
      Given!CancelStep, Table!Begin, Given!Begin, Table!CreateOrder, Given!CreateOrder,
      Table!SubmitAnswered, Given!SubmitAnswered, Table!SubmitAnswerLost,
      Given!SubmitAnswerLost, Table!SubmitNotTaken, Given!SubmitNotTaken, Table!Retry,
      Given!Retry, Table!SaveExecution, Given!SaveExecution, Table!UpdateOrderStatus,
      Given!UpdateOrderStatus, Table!MarkSent, Given!MarkSent, Table!MarkRejected,
      Given!MarkRejected, Table!PublishOrderEvent, Given!PublishOrderEvent,
      Table!PublishSent, Given!PublishSent, Table!PublishRejected, Given!PublishRejected,
      Table!CancelTo, Given!CancelTo, Table!Known, Given!Known, Table!CancelGetOrder,
      Given!CancelGetOrder, Table!CancelAtBroker, Given!CancelAtBroker,
      Table!CancelUpdateStatus, Given!CancelUpdateStatus, Table!CancelPublish,
      Given!CancelPublish, Table!EndContexts, Given!EndContexts, Table!Crash,
      Given!Crash, Table!DbOutcomes, Given!DbOutcomes, Table!Applied, Given!Applied,
      Table!Goto, Given!Goto, Table!At, Given!At, Table!Running, Given!Running,
      Table!Cancelling, Given!Cancelling, Table!execVars, Given!execVars,
      Table!tableVars, Given!tableVars, Table!brokerVars, Given!brokerVars,
      Table!cancelVars, Given!cancelVars, Table!vars, Given!vars

\* What Execute promises does not depend on where the caller of Cancel gets its ids from
\* (order_executor.go:63-160), for any number of calls and any retry limit.
THEOREM AnyCallerIsSafeInvariant == Table!Spec => []AnyCallerIsSafe
<1>1. Table!Spec => Given!Spec
  BY SameTableInit, SameTableNext, PTL DEF Table!Spec, Given!Spec
<1>2. Given!Spec => [](Given!TableIsTrue /\ Given!ExposureBounded /\ Given!OutcomesAgree)
  BY GivenAssumptions, Given!TableIsTrueInvariant, Given!ExposureBoundedInvariant,
     Given!OutcomesAgreeInvariant, PTL
<1>3. Given!TableIsTrue => Table!TableIsTrue
  BY DEF Given!TableIsTrue, Table!TableIsTrue, Given!TypeOK, Table!TypeOK,
         Given!SentIsAtBroker, Table!SentIsAtBroker, Given!TrackedIsLast,
         Table!TrackedIsLast, Given!RejectedIsUntracked, Table!RejectedIsUntracked,
         Given!ExecPC, Table!ExecPC, Given!CancelPC, Table!CancelPC, Given!Running,
         Table!Running, Given!Cancelling, Table!Cancelling, Given!Status, Table!Status
<1>4. Given!ExposureBounded => Table!ExposureBounded
  BY DEF Given!ExposureBounded, Table!ExposureBounded
<1>5. Given!OutcomesAgree => Table!OutcomesAgree
  BY DEF Given!OutcomesAgree, Table!OutcomesAgree, Given!Untouched, Table!Untouched
<1>6. Given!TableIsTrue /\ Given!ExposureBounded /\ Given!OutcomesAgree
        => AnyCallerIsSafe
  BY <1>3, <1>4, <1>5 DEF AnyCallerIsSafe
<1> QED
  BY <1>1, <1>2, <1>6, PTL
=============================================================================
