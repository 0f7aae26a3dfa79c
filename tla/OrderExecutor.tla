---------------------------- MODULE OrderExecutor ----------------------------
(***************************************************************************)
(* OrderExecutor (internal/broker/order_executor.go) with the parts it     *)
(* drives: the orders table (internal/repository/order_repo.go), the retry *)
(* loop of the KIS broker client (internal/broker/kis_client.go) and the   *)
(* order-event topic.  Each member of Orders is one call of Execute, run   *)
(* by a goroutine of its own; each member of Cancellers is one call of     *)
(* Cancel.  Their steps interleave at every call that leaves the process.  *)
(*                                                                         *)
(* A call that leaves the process may fail before it takes effect, or take *)
(* effect and still report an error, because its answer was lost or the    *)
(* caller's context ended while it was waiting.                            *)
(***************************************************************************)
EXTENDS Naturals, FiniteSets

CONSTANTS Orders,       \* calls of Execute
          Cancellers,   \* calls of Cancel
          NoOrder,      \* the target of a Cancel that was not called yet
          MaxRetries,   \* KISClient.maxRetries
          LearnsFrom    \* where the caller of Cancel gets the order's id from:
                        \* the orders table or the order events

ASSUME OrdersAssumption == NoOrder \notin Orders
ASSUME RetriesAssumption == MaxRetries \in Nat
ASSUME LearnsAssumption == LearnsFrom \in {"table", "events"}

VARIABLES
  pc,        \* [Orders -> ExecPC], where each Execute is
  attempt,   \* [Orders -> Nat], submissions made by its retry loop
  kisId,     \* [Orders -> Nat], id in the answer kisResp, 0 before there is one
  status,    \* [Orders -> Status], status column of its row; "none": no row
  brokerId,  \* [Orders -> Nat], broker_order_id column, 0 for NULL
  placed,    \* [Orders -> Nat], orders the broker took for it, numbered from 1
  withdrawn, \* [Orders -> SUBSET Nat], those of them the broker cancelled
  events,    \* [Orders -> SUBSET Status], statuses published for it
  logged,    \* [Orders -> BOOLEAN], a failure was logged and passed over
  ctxDone,   \* [Orders -> BOOLEAN], the context of its Execute has ended
  cpc,       \* [Cancellers -> CancelPC], where each Cancel is
  target,    \* [Cancellers -> Orders \cup {NoOrder}], the order it cancels
  readId     \* [Cancellers -> Nat], broker_order_id of the row it read

execVars   == <<pc, attempt, kisId>>
tableVars  == <<status, brokerId>>
brokerVars == <<placed, withdrawn>>
cancelVars == <<cpc, target, readId>>
vars == <<execVars, tableVars, brokerVars, events, logged, ctxDone, cancelVars>>

Status == {"none", "PENDING", "SENT", "REJECTED", "CANCELLED"}
Running == {"create", "submit", "saveExecution", "markSent", "publishSent",
            "markRejected", "publishRejected"}
ExecPC == {"idle", "ok", "error", "crashed"} \cup Running
Cancelling == {"cancelAtBroker", "updateStatus", "publishCancelled"}
CancelPC == {"idle", "ok", "error", "crashed"} \cup Cancelling

TypeOK ==
  /\ pc \in [Orders -> ExecPC]
  /\ attempt \in [Orders -> 0..(MaxRetries + 1)]
  /\ kisId \in [Orders -> 0..(MaxRetries + 1)]
  /\ status \in [Orders -> Status]
  /\ brokerId \in [Orders -> 0..(MaxRetries + 1)]
  /\ placed \in [Orders -> 0..(MaxRetries + 1)]
  /\ withdrawn \in [Orders -> SUBSET (1..(MaxRetries + 1))]
  /\ events \in [Orders -> SUBSET {"SENT", "REJECTED", "CANCELLED"}]
  /\ logged \in [Orders -> BOOLEAN]
  /\ ctxDone \in [Orders -> BOOLEAN]
  /\ cpc \in [Cancellers -> CancelPC]
  /\ target \in [Cancellers -> Orders \cup {NoOrder}]
  /\ readId \in [Cancellers -> 0..(MaxRetries + 1)]

Init ==
  /\ pc = [o \in Orders |-> "idle"]
  /\ attempt = [o \in Orders |-> 0]
  /\ kisId = [o \in Orders |-> 0]
  /\ status = [o \in Orders |-> "none"]
  /\ brokerId = [o \in Orders |-> 0]
  /\ placed = [o \in Orders |-> 0]
  /\ withdrawn = [o \in Orders |-> {}]
  /\ events = [o \in Orders |-> {}]
  /\ logged = [o \in Orders |-> FALSE]
  /\ ctxDone = [o \in Orders |-> FALSE]
  /\ cpc = [c \in Cancellers |-> "idle"]
  /\ target = [c \in Cancellers |-> NoOrder]
  /\ readId = [c \in Cancellers |-> 0]

-----------------------------------------------------------------------------
(* Outcomes of a statement on the database: it runs, it fails without      *)
(* effect, or it commits and the caller gets an error all the same.  The   *)
(* pool refuses a statement whose context has already ended.               *)
DbOutcomes(done) == IF done THEN {"failed"} ELSE {"done", "failed", "unknown"}
Applied(out) == out \in {"done", "unknown"}

Goto(o, l) == pc' = [pc EXCEPT ![o] = l]
At(o, l) == pc[o] = l

(* Execute is called; its context may already have ended.                  *)
Begin(o) ==
  /\ At(o, "idle")
  /\ Goto(o, "create")
  /\ UNCHANGED <<attempt, kisId, tableVars, brokerVars, events, logged,
                 ctxDone, cancelVars>>

(* repository.CreateOrder: INSERT ... RETURNING id, status PENDING.        *)
CreateOrder(o) ==
  /\ At(o, "create")
  /\ \E out \in DbOutcomes(ctxDone[o]) :
       /\ status' = IF Applied(out) THEN [status EXCEPT ![o] = "PENDING"]
                                    ELSE status
       /\ Goto(o, IF out = "done" THEN "submit" ELSE "error")
  /\ UNCHANGED <<attempt, kisId, brokerId, brokerVars, events, logged,
                 ctxDone, cancelVars>>

(* One pass of the retry loop of KISClient.SubmitOrder.  The three actions *)
(* are its outcomes: the broker takes the order and says so; it takes the  *)
(* order and the answer never arrives (timeout, broken body, context       *)
(* ended while waiting); it does not take it (refused, unreachable, the    *)
(* circuit breaker is open, the context had ended before).                 *)
\* Mutants of Retry: one attempt too many; the attempts are not counted.
Retry_OneTooMany(o) ==
  /\ attempt' = [attempt EXCEPT ![o] = @ + 1]
  /\ Goto(o, IF attempt[o] = MaxRetries + 1 THEN "markRejected" ELSE "submit")
Retry_NotCounted(o) == UNCHANGED <<attempt, pc>>

Retry(o) == /\ attempt' = [attempt EXCEPT ![o] = @ + 1]
            /\ Goto(o, IF attempt[o] = MaxRetries THEN "markRejected"
                                                  ELSE "submit")

\* Mutant of SubmitAnswered: every answer is taken for that of the first try.
SubmitAnswered_FirstId(o) ==
  /\ At(o, "submit") /\ ~ctxDone[o]
  /\ placed' = [placed EXCEPT ![o] = @ + 1]
  /\ kisId' = [kisId EXCEPT ![o] = 1]
  /\ attempt' = [attempt EXCEPT ![o] = @ + 1]
  /\ Goto(o, "saveExecution")
  /\ UNCHANGED <<tableVars, withdrawn, events, logged, ctxDone, cancelVars>>

SubmitAnswered(o) ==
  /\ At(o, "submit")
  /\ ~ctxDone[o]
  /\ placed' = [placed EXCEPT ![o] = @ + 1]
  /\ kisId' = [kisId EXCEPT ![o] = placed[o] + 1]
  /\ attempt' = [attempt EXCEPT ![o] = @ + 1]
  /\ Goto(o, "saveExecution")
  /\ UNCHANGED <<tableVars, withdrawn, events, logged, ctxDone, cancelVars>>

SubmitAnswerLost(o) ==
  /\ At(o, "submit")
  /\ ~ctxDone[o]
  /\ placed' = [placed EXCEPT ![o] = @ + 1]
  /\ Retry(o)
  /\ UNCHANGED <<kisId, tableVars, withdrawn, events, logged, ctxDone,
                 cancelVars>>

SubmitNotTaken(o) ==
  /\ At(o, "submit")
  /\ Retry(o)
  /\ UNCHANGED <<kisId, tableVars, brokerVars, events, logged, ctxDone,
                 cancelVars>>

(* repository.UpdateOrderExecution: the broker's id goes into the row.     *)
(* submitOrderInternal never sets FilledQuantity, and a quantity is        *)
(* positive, so the CASE of the statement keeps the status.  A failure is  *)
(* logged and Execute goes on.                                             *)
SaveExecution(o) ==
  /\ At(o, "saveExecution")
  /\ \E out \in DbOutcomes(ctxDone[o]) :
       /\ brokerId' = IF Applied(out)
                      THEN [brokerId EXCEPT ![o] = kisId[o]] ELSE brokerId
       /\ logged' = [logged EXCEPT ![o] = @ \/ out # "done"]
  /\ Goto(o, "markSent")
  /\ UNCHANGED <<attempt, kisId, status, brokerVars, events, ctxDone,
                 cancelVars>>

(* repository.UpdateOrderStatus: the WHERE clause names the id only, so    *)
(* the statement overwrites whatever status the row has by then.           *)
UpdateOrderStatus(o, to, next) ==
  /\ \E out \in DbOutcomes(ctxDone[o]) :
       /\ status' = IF Applied(out) THEN [status EXCEPT ![o] = to] ELSE status
       /\ logged' = [logged EXCEPT ![o] = @ \/ out # "done"]
  /\ Goto(o, next)
  /\ UNCHANGED <<attempt, kisId, brokerId, brokerVars, events, ctxDone,
                 cancelVars>>

\* Mutants of MarkSent and MarkRejected: the row is not updated.
MarkSent_NoUpdate(o) ==
  /\ At(o, "markSent") /\ Goto(o, "publishSent")
  /\ UNCHANGED <<attempt, kisId, tableVars, brokerVars, events, logged,
                 ctxDone, cancelVars>>
MarkRejected_NoUpdate(o) ==
  /\ At(o, "markRejected") /\ Goto(o, "publishRejected")
  /\ UNCHANGED <<attempt, kisId, tableVars, brokerVars, events, logged,
                 ctxDone, cancelVars>>

MarkSent(o) ==
  At(o, "markSent") /\ UpdateOrderStatus(o, "SENT", "publishSent")

MarkRejected(o) ==
  At(o, "markRejected") /\ UpdateOrderStatus(o, "REJECTED", "publishRejected")

(* publishOrderEvent: does not look at the context; a failure is logged    *)
(* and dropped.                                                            *)
PublishOrderEvent(o, st) ==
  \E out \in {"done", "failed", "unknown"} :
    /\ events' = IF Applied(out) THEN [events EXCEPT ![o] = @ \cup {st}]
                                 ELSE events
    /\ logged' = [logged EXCEPT ![o] = @ \/ out # "done"]

PublishSent(o) ==
  /\ At(o, "publishSent")
  /\ PublishOrderEvent(o, "SENT")
  /\ Goto(o, "ok")
  /\ UNCHANGED <<attempt, kisId, tableVars, brokerVars, ctxDone, cancelVars>>

PublishRejected(o) ==
  /\ At(o, "publishRejected")
  /\ PublishOrderEvent(o, "REJECTED")
  /\ Goto(o, "error")
  /\ UNCHANGED <<attempt, kisId, tableVars, brokerVars, ctxDone, cancelVars>>

-----------------------------------------------------------------------------
(* Cancel reads the row once and works from that copy.                     *)
CancelTo(c, l) == cpc' = [cpc EXCEPT ![c] = l]

\* The ids a caller of Cancel can have: CreateOrder lets the database choose
\* the id and the response to the client carries the request's own id, so it
\* is learnt from the table or from an order event.
Known(o) == /\ status[o] # "none"
            /\ LearnsFrom = "table" \/ events[o] # {}

\* Mutants of CancelGetOrder: the broker is never asked; any status will do.
CancelGetOrder_NoBroker(c, o) ==
  /\ cpc[c] = "idle" /\ Known(o) /\ status[o] \in {"PENDING", "SENT"}
  /\ target' = [target EXCEPT ![c] = o]
  /\ CancelTo(c, "updateStatus")
  /\ UNCHANGED <<execVars, tableVars, brokerVars, events, logged, ctxDone,
                 readId>>
CancelGetOrder_AnyStatus(c, o) ==
  /\ cpc[c] = "idle" /\ Known(o)
  /\ target' = [target EXCEPT ![c] = o]
  /\ readId' = [readId EXCEPT ![c] = brokerId[o]]
  /\ CancelTo(c, IF brokerId[o] # 0 THEN "cancelAtBroker" ELSE "updateStatus")
  /\ UNCHANGED <<execVars, tableVars, brokerVars, events, logged, ctxDone>>

CancelGetOrder(c, o) ==
  /\ cpc[c] = "idle"
  /\ Known(o)
  /\ target' = [target EXCEPT ![c] = o]
  /\ \/ /\ status[o] \in {"PENDING", "SENT"}
        /\ readId' = [readId EXCEPT ![c] = brokerId[o]]
        /\ CancelTo(c, IF brokerId[o] # 0 THEN "cancelAtBroker"
                                          ELSE "updateStatus")
     \/ /\ CancelTo(c, "error")     \* final status, or GetOrder failed
        /\ UNCHANGED readId
  /\ UNCHANGED <<execVars, tableVars, brokerVars, events, logged, ctxDone>>

(* kisClient.CancelOrder; its error is logged, "updating status anyway".   *)
CancelAtBroker(c) ==
  /\ cpc[c] = "cancelAtBroker"
  /\ \/ withdrawn' = [withdrawn EXCEPT ![target[c]] = @ \cup {readId[c]}]
     \/ UNCHANGED withdrawn
  /\ CancelTo(c, "updateStatus")
  /\ UNCHANGED <<execVars, tableVars, placed, events, logged, ctxDone, target,
                 readId>>

(* repository.CancelOrder, an unconditional UpdateOrderStatus.             *)
CancelUpdateStatus(c) ==
  /\ cpc[c] = "updateStatus"
  /\ \E out \in DbOutcomes(FALSE) :
       /\ status' = IF Applied(out)
                    THEN [status EXCEPT ![target[c]] = "CANCELLED"] ELSE status
       /\ CancelTo(c, IF out = "done" THEN "publishCancelled" ELSE "error")
  /\ UNCHANGED <<execVars, brokerId, brokerVars, events, logged, ctxDone,
                 target, readId>>

CancelPublish(c) ==
  /\ cpc[c] = "publishCancelled"
  /\ PublishOrderEvent(target[c], "CANCELLED")
  /\ CancelTo(c, "ok")
  /\ UNCHANGED <<execVars, tableVars, brokerVars, ctxDone, target, readId>>

-----------------------------------------------------------------------------
(* The contexts of some calls end: a client left and its stream closed.    *)
EndContexts(S) ==
  /\ ctxDone' = [o \in Orders |-> ctxDone[o] \/ o \in S]
  /\ UNCHANGED <<execVars, tableVars, brokerVars, events, logged, cancelVars>>

(* The process dies.  Nothing it held in memory survives and no code looks *)
(* for interrupted orders when it starts again.                            *)
Crash ==
  /\ pc' = [o \in Orders |-> IF pc[o] \in Running THEN "crashed" ELSE pc[o]]
  /\ cpc' = [c \in Cancellers |->
               IF cpc[c] \in Cancelling THEN "crashed" ELSE cpc[c]]
  /\ UNCHANGED <<attempt, kisId, tableVars, brokerVars, events, logged,
                 ctxDone, target, readId>>

ExecuteStep(o) ==
  \/ CreateOrder(o)
  \/ SubmitAnswered(o) \/ SubmitAnswerLost(o) \/ SubmitNotTaken(o)
  \/ SaveExecution(o) \/ MarkSent(o) \/ PublishSent(o)
  \/ MarkRejected(o) \/ PublishRejected(o)

CancelStep(c) ==
  CancelAtBroker(c) \/ CancelUpdateStatus(c) \/ CancelPublish(c)

Next ==
  \/ \E o \in Orders : Begin(o) \/ ExecuteStep(o)
  \/ \E c \in Cancellers : CancelStep(c) \/ \E o \in Orders : CancelGetOrder(c, o)
  \/ \E S \in SUBSET Orders : EndContexts(S)
  \/ Crash

(* A goroutine that can run is run, and every call that leaves the process *)
(* returns: the HTTP client has a timeout, sarama and pgx report broken    *)
(* connections.                                                            *)
Fairness == /\ \A o \in Orders : WF_vars(ExecuteStep(o))
            /\ \A c \in Cancellers : WF_vars(CancelStep(c))

Spec == Init /\ [][Next]_vars
LiveSpec == Spec /\ Fairness

-----------------------------------------------------------------------------
(* Properties.                                                             *)

\* A row says SENT only when the broker took an order for it, whatever was
\* retried, lost, cancelled or overwritten (order_executor.go:88 runs only
\* after SubmitOrder returned an answer).
SentIsAtBroker == \A o \in Orders : status[o] = "SENT" => placed[o] > 0

\* The id in a row is the one of the last order the broker took for it: no
\* submission follows the answer Execute works from, so only orders whose
\* answer was lost stay untracked (kis_client.go:143).
TrackedIsLast == \A o \in Orders : brokerId[o] # 0 => brokerId[o] = placed[o]

\* A REJECTED row never names a broker order and never had a SENT event
\* (order_executor.go:63-75): the two outcomes of Execute exclude each other.
RejectedIsUntracked ==
  \A o \in Orders : status[o] = "REJECTED" \/ "REJECTED" \in events[o] =>
                      brokerId[o] = 0 /\ "SENT" \notin events[o]

\* The retry loop bounds the exposure: at most one order at the broker per
\* submission, at most MaxRetries + 1 submissions (kis_client.go:128), and a
\* REJECTED row has used all of them.
ExposureBounded ==
  \A o \in Orders : /\ placed[o] <= attempt[o]
                    /\ attempt[o] <= MaxRetries + 1
                    /\ status[o] = "REJECTED" => attempt[o] = MaxRetries + 1

\* What a row says of the broker is true, in all three respects.
TableIsTrue == TypeOK /\ SentIsAtBroker /\ TrackedIsLast /\ RejectedIsUntracked

\* If nothing failed silently and nobody cancels the order, then what Execute
\* returned, the row and the events agree (order_executor.go:63-103).
Untouched(o) == ~logged[o] /\ \A c \in Cancellers : target[c] # o
OutcomesAgree ==
  \A o \in Orders : Untouched(o) =>
    /\ pc[o] = "ok" => /\ status[o] = "SENT" /\ brokerId[o] = placed[o]
                       /\ events[o] = {"SENT"}
    /\ pc[o] = "error" /\ attempt[o] > 0 => /\ status[o] = "REJECTED"
                                            /\ events[o] = {"REJECTED"}

\* If ids are learnt from order events, an order that reached the broker and
\* is CANCELLED had its tracked broker order put up for cancellation, unless a
\* failed statement was passed over (order_executor.go:126).
CancelReachesBroker ==
  \A o \in Orders :
    status[o] = "CANCELLED" /\ placed[o] > 0 /\ ~logged[o] =>
      \E c \in Cancellers : target[c] = o /\ readId[c] = placed[o]

\* The orders table keeps the promise of OrderLifecycle when ids are learnt
\* from order events: Execute publishes after its last write.
Lifecycle == INSTANCE OrderLifecycle
               WITH atBroker <- {o \in Orders : placed[o] > 0}
KeepsLifecycle == Lifecycle!Spec

\* Every Execute comes to an end, however its calls fail, unless the process
\* dies: the retry loop is bounded (kis_client.go:128).
ExecuteReturns ==
  \A o \in Orders :
    pc[o] = "create" ~> pc[o] \in {"ok", "error", "crashed"}
=============================================================================
