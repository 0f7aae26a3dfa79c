------------------------- MODULE OrderExecutorProofs -------------------------
(***************************************************************************)
(* Proofs about OrderExecutor, for any number of Execute and Cancel calls  *)
(* and any retry limit.  The safety invariants follow from IInv, which     *)
(* says what each place in Execute knows; that the table implements        *)
(* OrderLifecycle when ids are learnt from order events follows from IInv  *)
(* and EventsInv, which says that Cancel then never overlaps Execute.      *)
(***************************************************************************)
EXTENDS OrderExecutor, TLAPS

Answered == {"saveExecution", "markSent", "publishSent", "ok"}
Rejecting == {"markRejected", "publishRejected"}

\* What Execute's place, its variables and its row say of each other.
OrderInv(o) ==
  /\ placed[o] <= attempt[o]
  /\ pc[o] = "submit" => attempt[o] <= MaxRetries
  /\ pc[o] \in Rejecting => attempt[o] = MaxRetries + 1
  /\ pc[o] \in {"idle", "create"} => status[o] = "none" /\ attempt[o] = 0
  /\ pc[o] \in {"submit"} \cup Answered \cup Rejecting => status[o] # "none"
  /\ pc[o] \in {"idle", "create", "submit", "error"} \cup Rejecting
       => kisId[o] = 0
  /\ pc[o] \in Answered => kisId[o] > 0
  /\ kisId[o] # 0 => kisId[o] = placed[o]
  /\ brokerId[o] # 0 => brokerId[o] = kisId[o]
  /\ status[o] = "SENT" \/ "SENT" \in events[o] => kisId[o] > 0
  /\ status[o] = "REJECTED" \/ "REJECTED" \in events[o]
       => kisId[o] = 0 /\ attempt[o] = MaxRetries + 1

CancelInv(c) ==
  /\ cpc[c] = "idle" => target[c] = NoOrder
  /\ cpc[c] \in Cancelling => target[c] \in Orders /\ status[target[c]] # "none"
  /\ cpc[c] = "cancelAtBroker" => readId[c] # 0

IInv == /\ TypeOK
        /\ \A o \in Orders : OrderInv(o)
        /\ \A c \in Cancellers : CancelInv(c)

\* With ids learnt from events: an order with an event is no longer being
\* executed, and only such orders are cancelled.
EventsInv ==
  /\ \A o \in Orders :
       /\ events[o] # {} => pc[o] \in {"ok", "error"}
       /\ pc[o] \in {"submit", "saveExecution", "markSent", "markRejected"}
            => status[o] = "PENDING"
  /\ \A c \in Cancellers :
       cpc[c] \in Cancelling =>
         /\ target[c] \in Orders /\ events[target[c]] # {}
         /\ status[target[c]] \in {"PENDING", "SENT", "CANCELLED"}

-----------------------------------------------------------------------------
\* The initial state of Execute, Cancel, table and broker satisfies IInv.
LEMMA InitIInv == Init => IInv
  BY RetriesAssumption
  DEF Init, IInv, TypeOK, OrderInv, CancelInv, ExecPC, CancelPC, Status,
      Running, Cancelling, Answered, Rejecting

\* Every step of Execute and Cancel, every ended context and every crash
\* keeps IInv.
LEMMA NextIInv == IInv /\ [Next]_vars => IInv'
<1> SUFFICES ASSUME IInv, [Next]_vars
             PROVE  IInv'
  OBVIOUS
<1> USE RetriesAssumption
    DEF IInv, TypeOK, OrderInv, CancelInv, ExecPC, CancelPC, Status, Running,
        Cancelling, Answered, Rejecting, execVars, tableVars, brokerVars,
        cancelVars
<1>1. ASSUME NEW o \in Orders, Begin(o)
      PROVE  IInv'
  BY <1>1 DEF Begin, Goto, At
<1>2. ASSUME NEW o \in Orders, CreateOrder(o)
      PROVE  IInv'
  BY <1>2 DEF CreateOrder, DbOutcomes, Applied, Goto, At
<1>3. ASSUME NEW o \in Orders, SubmitAnswered(o)
      PROVE  IInv'
  BY <1>3 DEF SubmitAnswered, Goto, At
<1>4. ASSUME NEW o \in Orders, SubmitAnswerLost(o)
      PROVE  IInv'
<2>1. /\ attempt[o] \in 0..MaxRetries /\ placed[o] <= attempt[o] /\ kisId[o] = 0
      /\ placed' = [placed EXCEPT ![o] = placed[o] + 1]
      /\ attempt' = [attempt EXCEPT ![o] = attempt[o] + 1]
      /\ pc' = [pc EXCEPT ![o] = IF attempt[o] = MaxRetries THEN "markRejected"
                                                          ELSE "submit"]
      /\ UNCHANGED <<kisId, status, brokerId, withdrawn, events, logged, ctxDone,
                     cpc, target, readId>>
  BY <1>4 DEF SubmitAnswerLost, Retry, Goto, At
<2>2. TypeOK'
  BY <2>1
<2>3. ASSUME NEW q \in Orders
      PROVE  OrderInv(q)'
  <3>1. CASE q # o
    BY <2>1, <3>1
  <3>2. CASE q = o
    BY <2>1, <3>2, <1>4 DEF SubmitAnswerLost, At
  <3> QED
    BY <3>1, <3>2
<2>4. \A c \in Cancellers : CancelInv(c)'
  BY <2>1
<2> QED
  BY <2>2, <2>3, <2>4
<1>5. ASSUME NEW o \in Orders, SubmitNotTaken(o)
      PROVE  IInv'
  BY <1>5 DEF SubmitNotTaken, Retry, Goto, At
<1>6. ASSUME NEW o \in Orders, SaveExecution(o)
      PROVE  IInv'
  BY <1>6 DEF SaveExecution, DbOutcomes, Applied, Goto, At
<1>7. ASSUME NEW o \in Orders, MarkSent(o)
      PROVE  IInv'
  BY <1>7 DEF MarkSent, UpdateOrderStatus, DbOutcomes, Applied, Goto, At
<1>8. ASSUME NEW o \in Orders, PublishSent(o)
      PROVE  IInv'
  BY <1>8 DEF PublishSent, PublishOrderEvent, Applied, Goto, At
<1>9. ASSUME NEW o \in Orders, MarkRejected(o)
      PROVE  IInv'
  BY <1>9 DEF MarkRejected, UpdateOrderStatus, DbOutcomes, Applied, Goto, At
<1>10. ASSUME NEW o \in Orders, PublishRejected(o)
      PROVE  IInv'
  BY <1>10 DEF PublishRejected, PublishOrderEvent, Applied, Goto, At
<1>11. ASSUME NEW c \in Cancellers, CancelAtBroker(c)
      PROVE  IInv'
  BY <1>11 DEF CancelAtBroker, CancelTo
<1>12. ASSUME NEW c \in Cancellers, CancelUpdateStatus(c)
      PROVE  IInv'
  BY <1>12 DEF CancelUpdateStatus, CancelTo, DbOutcomes, Applied
<1>13. ASSUME NEW c \in Cancellers, CancelPublish(c)
      PROVE  IInv'
  BY <1>13 DEF CancelPublish, CancelTo, PublishOrderEvent, Applied
<1>14. ASSUME NEW c \in Cancellers, NEW o \in Orders, CancelGetOrder(c, o)
      PROVE  IInv'
<2>1. /\ status[o] # "none"
      /\ target' = [target EXCEPT ![c] = o]
      /\ \/ readId' = [readId EXCEPT ![c] = brokerId[o]]
         \/ readId' = readId
      /\ \/ cpc' = [cpc EXCEPT ![c] = "updateStatus"]
         \/ cpc' = [cpc EXCEPT ![c] = "error"]
         \/ /\ cpc' = [cpc EXCEPT ![c] = "cancelAtBroker"]
            /\ readId' = [readId EXCEPT ![c] = brokerId[o]] /\ brokerId[o] # 0
      /\ UNCHANGED <<pc, attempt, kisId, status, brokerId, placed, withdrawn, events,
                     logged, ctxDone>>
  BY <1>14 DEF CancelGetOrder, CancelTo, Known
<2>2. TypeOK'
  BY <2>1
<2>3. \A q \in Orders : OrderInv(q)'
  BY <2>1
<2>4. \A d \in Cancellers : CancelInv(d)'
  BY <2>1
<2> QED
  BY <2>2, <2>3, <2>4
<1>15. ASSUME NEW S \in SUBSET Orders, EndContexts(S)
      PROVE  IInv'
  BY <1>15 DEF EndContexts
<1>16. CASE Crash
  BY <1>16 DEF Crash
<1>17. CASE UNCHANGED vars
  BY <1>17 DEF vars
<1> QED
  BY <1>1, <1>2, <1>3, <1>4, <1>5, <1>6, <1>7, <1>8, <1>9, <1>10, <1>11, <1>12, <1>13, <1>14, <1>15, <1>16, <1>17 DEF Next, ExecuteStep, CancelStep

\* Spec keeps IInv.
THEOREM IInvInvariant == Spec => []IInv
  BY InitIInv, NextIInv, PTL DEF Spec

\* Every variable keeps its type, however many submissions a retry loop makes.
THEOREM TypeCorrect == Spec => []TypeOK
  BY IInvInvariant, PTL DEF IInv

\* A row says SENT only when the broker took an order for it.
THEOREM SentIsAtBrokerInvariant == Spec => []SentIsAtBroker
<1>1. IInv => SentIsAtBroker
  BY DEF IInv, TypeOK, OrderInv, SentIsAtBroker
<1> QED
  BY <1>1, IInvInvariant, PTL

\* The id in a row is that of the last order the broker took for it.
THEOREM TrackedIsLastInvariant == Spec => []TrackedIsLast
<1>1. IInv => TrackedIsLast
  BY DEF IInv, TypeOK, OrderInv, TrackedIsLast
<1> QED
  BY <1>1, IInvInvariant, PTL

\* A REJECTED order never names a broker order and never had a SENT event.
THEOREM RejectedIsUntrackedInvariant == Spec => []RejectedIsUntracked
<1>1. IInv => RejectedIsUntracked
  BY DEF IInv, TypeOK, OrderInv, RejectedIsUntracked
<1> QED
  BY <1>1, IInvInvariant, PTL

\* What a row says of the broker is true, for any number of Execute and Cancel
\* calls, any retry limit and every pattern of failures.
THEOREM TableIsTrueInvariant == Spec => []TableIsTrue
  BY TypeCorrect, SentIsAtBrokerInvariant, TrackedIsLastInvariant,
     RejectedIsUntrackedInvariant, PTL DEF TableIsTrue

\* A retry loop never places more orders than it made submissions, nor makes
\* more than MaxRetries + 1, and a REJECTED row has used them all.
THEOREM ExposureBoundedInvariant == Spec => []ExposureBounded
<1>1. IInv => ExposureBounded
  BY RetriesAssumption DEF IInv, TypeOK, OrderInv, ExposureBounded
<1> QED
  BY <1>1, IInvInvariant, PTL

-----------------------------------------------------------------------------
\* No event, no row and no Cancel in the initial state.
LEMMA InitEventsInv == Init => EventsInv
  BY DEF Init, EventsInv, Cancelling

\* If ids are learnt from events, Cancel only touches orders whose Execute has
\* published, which is the last thing it does.
LEMMA NextEventsInv ==
  ASSUME LearnsFrom = "events", IInv, EventsInv, [Next]_vars
  PROVE  EventsInv'
<1> USE DEF IInv, TypeOK, EventsInv, Cancelling, CancelInv, execVars, tableVars,
            brokerVars, cancelVars
<1>1. ASSUME NEW o \in Orders, Begin(o) \/ ExecuteStep(o)
      PROVE  EventsInv'
  <2>1. CASE Begin(o)
    BY <2>1 DEF Begin, Goto, At
  <2>2. CASE CreateOrder(o)
    BY <2>2 DEF CreateOrder, DbOutcomes, Applied, Goto, At
  <2>3. CASE SubmitAnswered(o)
    BY <2>3 DEF SubmitAnswered, Goto, At
  <2>4. CASE SubmitAnswerLost(o)
    BY <2>4 DEF SubmitAnswerLost, Retry, Goto, At
  <2>5. CASE SubmitNotTaken(o)
    BY <2>5 DEF SubmitNotTaken, Retry, Goto, At
  <2>6. CASE SaveExecution(o)
    BY <2>6 DEF SaveExecution, Goto, At
  <2>7. CASE MarkSent(o)
    BY <2>7 DEF MarkSent, UpdateOrderStatus, Goto, At
  <2>8. CASE PublishSent(o)
    BY <2>8 DEF PublishSent, PublishOrderEvent, Applied, Goto, At
  <2>9. CASE MarkRejected(o)
    BY <2>9 DEF MarkRejected, UpdateOrderStatus, Goto, At
  <2>10. CASE PublishRejected(o)
    BY <2>10 DEF PublishRejected, PublishOrderEvent, Applied, Goto, At
  <2> QED
    BY <1>1, <2>1, <2>2, <2>3, <2>4, <2>5, <2>6, <2>7, <2>8, <2>9, <2>10
    DEF ExecuteStep
<1>2. ASSUME NEW c \in Cancellers, CancelStep(c)
      PROVE  EventsInv'
  <2>1. CASE CancelAtBroker(c)
    BY <2>1 DEF CancelAtBroker, CancelTo
  <2>2. CASE CancelUpdateStatus(c)
    BY <2>2 DEF CancelUpdateStatus, CancelTo, DbOutcomes, Applied
  <2>3. CASE CancelPublish(c)
    BY <2>3 DEF CancelPublish, CancelTo, PublishOrderEvent, Applied
  <2> QED
    BY <1>2, <2>1, <2>2, <2>3 DEF CancelStep
<1>3. ASSUME NEW c \in Cancellers, NEW o \in Orders, CancelGetOrder(c, o)
      PROVE  EventsInv'
  BY <1>3 DEF CancelGetOrder, CancelTo, Known
<1>4. ASSUME NEW S \in SUBSET Orders, EndContexts(S)
      PROVE  EventsInv'
  BY <1>4 DEF EndContexts
<1>5. CASE Crash
  BY <1>5 DEF Crash, Running
<1>6. CASE UNCHANGED vars
  BY <1>6 DEF vars
<1> QED
  BY <1>1, <1>2, <1>3, <1>4, <1>5, <1>6 DEF Next

\* The first state of OrderExecutor is one of OrderLifecycle.
LEMMA InitLifecycle == Init => Lifecycle!Init
  BY DEF Init, Lifecycle!Init

\* Each step of OrderExecutor is a step of OrderLifecycle or leaves status and
\* atBroker alone.
LEMMA NextLifecycle ==
  ASSUME IInv, EventsInv, [Next]_vars
  PROVE  [Lifecycle!Next]_(Lifecycle!vars)
<1> USE DEF IInv, TypeOK, OrderInv, CancelInv, EventsInv, execVars, tableVars,
            brokerVars, cancelVars, Lifecycle!vars, Lifecycle!Next, Lifecycle!Move
<1>1. ASSUME NEW o \in Orders, Begin(o) \/ ExecuteStep(o)
      PROVE  [Lifecycle!Next]_(Lifecycle!vars)
  <2>1. CASE Begin(o)
    BY <2>1 DEF Begin
  <2>2. CASE CreateOrder(o)
    <3>1. status[o] = "none" /\ UNCHANGED placed
      BY <2>2 DEF CreateOrder, At
    <3>2. status' = status \/ status' = [status EXCEPT ![o] = "PENDING"]
      BY <2>2 DEF CreateOrder
    <3> QED
      BY <3>1, <3>2 DEF Lifecycle!Create
  <2>3. CASE SubmitAnswered(o) \/ SubmitAnswerLost(o)
    <3>1. /\ status[o] = "PENDING" /\ UNCHANGED status
          /\ placed' = [placed EXCEPT ![o] = placed[o] + 1]
      BY <2>3 DEF SubmitAnswered, SubmitAnswerLost, At
    <3>2. {q \in Orders : placed[q] > 0}'
            = {q \in Orders : placed[q] > 0} \cup {o}
      BY <3>1
    <3> QED
      BY <3>1, <3>2 DEF Lifecycle!Place
  <2>4. CASE SubmitNotTaken(o) \/ SaveExecution(o)
    BY <2>4 DEF SubmitNotTaken, SaveExecution
  <2>5. CASE MarkSent(o)
    <3>1. /\ status[o] = "PENDING" /\ placed[o] > 0 /\ UNCHANGED placed
      BY <2>5 DEF MarkSent, UpdateOrderStatus, At, Answered
    <3>2. status' = status \/ status' = [status EXCEPT ![o] = "SENT"]
      BY <2>5 DEF MarkSent, UpdateOrderStatus
    <3> QED
      BY <3>1, <3>2 DEF Lifecycle!Send
  <2>6. CASE MarkRejected(o)
    <3>1. status[o] = "PENDING" /\ UNCHANGED placed
      BY <2>6 DEF MarkRejected, UpdateOrderStatus, At
    <3>2. status' = status \/ status' = [status EXCEPT ![o] = "REJECTED"]
      BY <2>6 DEF MarkRejected, UpdateOrderStatus
    <3> QED
      BY <3>1, <3>2 DEF Lifecycle!Reject
  <2>7. CASE PublishSent(o) \/ PublishRejected(o)
    BY <2>7 DEF PublishSent, PublishRejected
  <2> QED
    BY <1>1, <2>1, <2>2, <2>3, <2>4, <2>5, <2>6, <2>7 DEF ExecuteStep
<1>2. ASSUME NEW c \in Cancellers, CancelStep(c)
      PROVE  [Lifecycle!Next]_(Lifecycle!vars)
  <2>1. CASE CancelAtBroker(c) \/ CancelPublish(c)
    BY <2>1 DEF CancelAtBroker, CancelPublish
  <2>2. CASE CancelUpdateStatus(c)
    <3>1. /\ target[c] \in Orders /\ UNCHANGED placed
          /\ status[target[c]] \in {"PENDING", "SENT", "CANCELLED"}
      BY <2>2 DEF CancelUpdateStatus, Cancelling
    <3>2. \/ status' = status
          \/ status' = [status EXCEPT ![target[c]] = "CANCELLED"]
      BY <2>2 DEF CancelUpdateStatus
    <3> QED
      BY <3>1, <3>2 DEF Lifecycle!Cancel
  <2> QED
    BY <1>2, <2>1, <2>2 DEF CancelStep
<1>3. ASSUME NEW c \in Cancellers, NEW o \in Orders, CancelGetOrder(c, o)
      PROVE  [Lifecycle!Next]_(Lifecycle!vars)
  BY <1>3 DEF CancelGetOrder
<1>4. ASSUME NEW S \in SUBSET Orders, EndContexts(S)
      PROVE  [Lifecycle!Next]_(Lifecycle!vars)
  BY <1>4 DEF EndContexts
<1>5. CASE Crash
  BY <1>5 DEF Crash
<1>6. CASE UNCHANGED vars
  BY <1>6 DEF vars
<1> QED
  BY <1>1, <1>2, <1>3, <1>4, <1>5, <1>6 DEF Next

\* If whoever calls Cancel learns ids from order events, the orders table
\* keeps the promise of OrderLifecycle: SENT only with an order at the broker,
\* and nothing moves a REJECTED or CANCELLED row.
THEOREM EventsKeepLifecycle ==
  ASSUME LearnsFrom = "events"
  PROVE  Spec => KeepsLifecycle
<1>1. IInv /\ EventsInv /\ [Next]_vars => EventsInv'
  BY NextEventsInv
<1>2. IInv /\ EventsInv /\ [Next]_vars => [Lifecycle!Next]_(Lifecycle!vars)
  BY NextLifecycle
<1> QED
  BY <1>1, <1>2, InitEventsInv, InitLifecycle, IInvInvariant, PTL
  DEF Spec, KeepsLifecycle, Lifecycle!Spec

-----------------------------------------------------------------------------
\* Begin and the steps of an Execute leave the other calls, their rows and every
\* Cancel as they are.
Kept(q) == /\ pc'[q] = pc[q] /\ attempt'[q] = attempt[q] /\ kisId'[q] = kisId[q]
           /\ status'[q] = status[q] /\ brokerId'[q] = brokerId[q]
           /\ placed'[q] = placed[q] /\ events'[q] = events[q]
           /\ logged'[q] = logged[q]

LEMMA OnlyOwnCall ==
  ASSUME TypeOK, NEW o \in Orders, Begin(o) \/ ExecuteStep(o)
  PROVE  /\ \A q \in Orders \ {o} : Kept(q)
         /\ UNCHANGED cancelVars
<1> USE DEF TypeOK, Kept, execVars, tableVars, brokerVars
<1>1. CASE Begin(o)
  BY <1>1 DEF Begin, Goto
<1>2. CASE CreateOrder(o)
  BY <1>2 DEF CreateOrder, Goto
<1>3. CASE SubmitAnswered(o)
  BY <1>3 DEF SubmitAnswered, Goto
<1>4. CASE SubmitAnswerLost(o)
  BY <1>4 DEF SubmitAnswerLost, Retry, Goto
<1>5. CASE SubmitNotTaken(o)
  BY <1>5 DEF SubmitNotTaken, Retry, Goto
<1>6. CASE SaveExecution(o)
  BY <1>6 DEF SaveExecution, Goto
<1>7. CASE MarkSent(o) \/ MarkRejected(o)
  BY <1>7 DEF MarkSent, MarkRejected, UpdateOrderStatus, Goto
<1>8. CASE PublishSent(o) \/ PublishRejected(o)
  BY <1>8 DEF PublishSent, PublishRejected, PublishOrderEvent, Goto
<1> QED
  BY <1>1, <1>2, <1>3, <1>4, <1>5, <1>6, <1>7, <1>8 DEF ExecuteStep

\* What Execute calls either takes effect or is logged as failed.
LEMMA SavedUnlessLogged ==
  ASSUME TypeOK, NEW o \in Orders, SaveExecution(o), ~logged'[o]
  PROVE  brokerId'[o] = kisId[o] /\ ~logged[o]
<1>1. PICK out \in {"done", "failed", "unknown"} :
        /\ brokerId' = IF Applied(out) THEN [brokerId EXCEPT ![o] = kisId[o]]
                                       ELSE brokerId
        /\ logged' = [logged EXCEPT ![o] = @ \/ out # "done"]
  BY DEF SaveExecution, DbOutcomes
<1>2. logged'[o] = (logged[o] \/ out # "done")
  BY <1>1 DEF TypeOK
<1>3. out = "done" /\ ~logged[o]
  BY <1>2
<1> QED
  BY <1>1, <1>3 DEF TypeOK, Applied

LEMMA UpdatedUnlessLogged ==
  ASSUME TypeOK, NEW o \in Orders, NEW to, NEW next,
         UpdateOrderStatus(o, to, next), ~logged'[o]
  PROVE  status'[o] = to /\ ~logged[o]
<1>1. PICK out \in {"done", "failed", "unknown"} :
        /\ status' = IF Applied(out) THEN [status EXCEPT ![o] = to] ELSE status
        /\ logged' = [logged EXCEPT ![o] = @ \/ out # "done"]
  BY DEF UpdateOrderStatus, DbOutcomes
<1>2. logged'[o] = (logged[o] \/ out # "done")
  BY <1>1 DEF TypeOK
<1>3. out = "done" /\ ~logged[o]
  BY <1>2
<1> QED
  BY <1>1, <1>3 DEF TypeOK, Applied

LEMMA PublishedUnlessLogged ==
  ASSUME TypeOK, NEW o \in Orders, NEW st, PublishOrderEvent(o, st), ~logged'[o]
  PROVE  events'[o] = events[o] \cup {st} /\ ~logged[o]
<1>1. PICK out \in {"done", "failed", "unknown"} :
        /\ events' = IF Applied(out) THEN [events EXCEPT ![o] = @ \cup {st}]
                                     ELSE events
        /\ logged' = [logged EXCEPT ![o] = @ \/ out # "done"]
  BY DEF PublishOrderEvent
<1>2. logged'[o] = (logged[o] \/ out # "done")
  BY <1>1 DEF TypeOK
<1>3. out = "done" /\ ~logged[o]
  BY <1>2
<1> QED
  BY <1>1, <1>3 DEF TypeOK, Applied

\* What an Execute has recorded at each place, unless a failure was passed over;
\* a Cancel may have overwritten the status since.
Recorded(o) ==
  /\ pc[o] \in {"markSent", "publishSent", "ok"} => brokerId[o] = kisId[o]
  /\ pc[o] \in {"publishSent", "ok"} => status[o] \in {"SENT", "CANCELLED"}
  /\ pc[o] = "publishRejected" => status[o] \in {"REJECTED", "CANCELLED"}
  /\ pc[o] = "error" => \/ attempt[o] = 0
                        \/ status[o] \in {"REJECTED", "CANCELLED"}

RecordedInv == \A o \in Orders : ~logged[o] => Recorded(o)

LEMMA RecordedStep ==
  ASSUME TypeOK, NEW o \in Orders, OrderInv(o), ~logged[o] => Recorded(o),
         Begin(o) \/ ExecuteStep(o), ~logged'[o]
  PROVE  Recorded(o)' /\ ~logged[o]
<1> USE DEF Recorded, At, Goto
<1>1. CASE Begin(o)
  BY <1>1 DEF Begin, TypeOK
<1>2. CASE CreateOrder(o)
  BY <1>2 DEF CreateOrder, OrderInv, TypeOK
<1>3. CASE SubmitAnswered(o)
  BY <1>3 DEF SubmitAnswered, TypeOK
<1>4. CASE SubmitAnswerLost(o) \/ SubmitNotTaken(o)
  BY <1>4 DEF SubmitAnswerLost, SubmitNotTaken, Retry, TypeOK
<1>5. CASE SaveExecution(o)
  <2>1. brokerId'[o] = kisId[o] /\ ~logged[o]
    BY <1>5, SavedUnlessLogged
  <2>2. pc'[o] = "markSent" /\ kisId' = kisId
    BY <1>5 DEF SaveExecution, TypeOK
  <2> QED
    BY <2>1, <2>2
<1>6. CASE MarkSent(o)
  <2>1. status'[o] = "SENT" /\ ~logged[o]
    BY <1>6, UpdatedUnlessLogged DEF MarkSent
  <2>2. /\ pc[o] = "markSent" /\ pc'[o] = "publishSent"
        /\ brokerId' = brokerId /\ kisId' = kisId
    BY <1>6 DEF MarkSent, UpdateOrderStatus, TypeOK
  <2> QED
    BY <2>1, <2>2
<1>7. CASE MarkRejected(o)
  <2>1. status'[o] = "REJECTED" /\ ~logged[o]
    BY <1>7, UpdatedUnlessLogged DEF MarkRejected
  <2>2. pc'[o] = "publishRejected"
    BY <1>7 DEF MarkRejected, UpdateOrderStatus, TypeOK
  <2> QED
    BY <2>1, <2>2
<1>8. CASE PublishSent(o) \/ PublishRejected(o)
  <2>1. ~logged[o]
    BY <1>8, PublishedUnlessLogged DEF PublishSent, PublishRejected
  <2>2. /\ \/ pc[o] = "publishSent" /\ pc'[o] = "ok"
           \/ pc[o] = "publishRejected" /\ pc'[o] = "error"
        /\ attempt' = attempt /\ tableVars' = tableVars /\ kisId' = kisId
    BY <1>8 DEF PublishSent, PublishRejected, TypeOK
  <2> QED
    BY <2>1, <2>2 DEF tableVars
<1> QED
  BY <1>1, <1>2, <1>3, <1>4, <1>5, <1>6, <1>7, <1>8 DEF ExecuteStep

\* A step of a Cancel leaves every Execute alone; it may make one row CANCELLED,
\* and it never takes a flag or an event back.
CancelEffect(o) ==
  /\ status'[o] \in {status[o], "CANCELLED"}
  /\ events[o] \subseteq events'[o]
  /\ logged[o] => logged'[o]

LEMMA OnlyOwnCancel ==
  ASSUME TypeOK, NEW c \in Cancellers, CancelInv(c), CancelStep(c)
  PROVE  /\ target[c] \in Orders
         /\ UNCHANGED <<execVars, brokerId, placed, target, readId>>
         /\ \A d \in Cancellers \ {c} : cpc'[d] = cpc[d]
         /\ CancelEffect(target[c])
         /\ \A o \in Orders \ {target[c]} :
              status'[o] = status[o] /\ events'[o] = events[o] /\ logged'[o] = logged[o]
<1> USE DEF TypeOK, CancelInv, CancelEffect, Cancelling, CancelTo, tableVars,
            brokerVars
<1>1. CASE CancelAtBroker(c)
  BY <1>1 DEF CancelAtBroker
<1>2. CASE CancelUpdateStatus(c)
  BY <1>2 DEF CancelUpdateStatus
<1>3. CASE CancelPublish(c)
  BY <1>3 DEF CancelPublish, PublishOrderEvent
<1> QED
  BY <1>1, <1>2, <1>3 DEF CancelStep

\* Begin and the steps of an Execute find it idle or running.
LEMMA CallIsActive ==
  ASSUME NEW o \in Orders, Begin(o) \/ ExecuteStep(o)
  PROVE  pc[o] \in {"idle"} \cup Running
BY DEF Begin, ExecuteStep, CreateOrder, SubmitAnswered, SubmitAnswerLost,
       SubmitNotTaken, SaveExecution, MarkSent, PublishSent, MarkRejected,
       PublishRejected, At, Running

\* An Execute that has returned stays as it is, whoever cancels and whatever crashes.
LEMMA ReturnedIsFinal ==
  ASSUME IInv, [Next]_vars, NEW o \in Orders, pc[o] = "ok"
  PROVE  pc'[o] = "ok"
<1>1. ASSUME NEW q \in Orders, Begin(q) \/ ExecuteStep(q)
      PROVE  pc'[o] = "ok"
  BY <1>1, CallIsActive, OnlyOwnCall DEF IInv, Kept, Running
<1>2. ASSUME NEW c \in Cancellers, CancelStep(c)
      PROVE  pc'[o] = "ok"
  BY <1>2, OnlyOwnCancel DEF IInv, execVars
<1>3. ASSUME NEW c \in Cancellers, NEW q \in Orders, CancelGetOrder(c, q)
      PROVE  pc'[o] = "ok"
  BY <1>3 DEF CancelGetOrder, execVars
<1>4. ASSUME NEW S \in SUBSET Orders, EndContexts(S)
      PROVE  pc'[o] = "ok"
  BY <1>4 DEF EndContexts, execVars
<1>5. CASE Crash
  BY <1>5 DEF Crash, Running
<1>6. CASE UNCHANGED vars
  BY <1>6 DEF vars, execVars
<1> QED
  BY <1>1, <1>2, <1>3, <1>4, <1>5, <1>6 DEF Next

LEMMA InitRecordedInv == Init => RecordedInv
  BY DEF Init, RecordedInv, Recorded

\* Nobody but its Execute moves an order on, and a Cancel only adds CANCELLED.
LEMMA NextRecordedInv ==
  ASSUME IInv, RecordedInv, [Next]_vars
  PROVE  RecordedInv'
<1>1. ASSUME NEW o \in Orders, Begin(o) \/ ExecuteStep(o)
      PROVE  RecordedInv'
  <2>1. ~logged'[o] => Recorded(o)'
    BY <1>1, RecordedStep DEF IInv, RecordedInv
  <2>2. \A q \in Orders \ {o} : Kept(q)
    BY <1>1, OnlyOwnCall DEF IInv
  <2>3. ASSUME NEW q \in Orders \ {o}, ~logged'[q]
        PROVE  Recorded(q)'
    BY <2>2, <2>3 DEF Kept, RecordedInv, Recorded
  <2> QED
    BY <2>1, <2>3 DEF RecordedInv
<1>2. ASSUME NEW c \in Cancellers, CancelStep(c)
      PROVE  RecordedInv'
  <2>1. /\ UNCHANGED <<pc, attempt, kisId, brokerId>>
        /\ \A o \in Orders : /\ status'[o] \in {status[o], "CANCELLED"}
                             /\ logged[o] => logged'[o]
    BY <1>2, OnlyOwnCancel DEF IInv, CancelEffect, execVars
  <2> QED
    BY <2>1 DEF RecordedInv, Recorded
<1>3. ASSUME NEW c \in Cancellers, NEW o \in Orders, CancelGetOrder(c, o)
      PROVE  RecordedInv'
  BY <1>3 DEF CancelGetOrder, RecordedInv, Recorded, execVars, tableVars
<1>4. ASSUME NEW S \in SUBSET Orders, EndContexts(S)
      PROVE  RecordedInv'
  BY <1>4 DEF EndContexts, RecordedInv, Recorded, execVars, tableVars
<1>5. CASE Crash
  <2>1. /\ \A o \in Orders : pc'[o] = "crashed" \/ pc'[o] = pc[o]
        /\ UNCHANGED <<attempt, kisId, status, brokerId, logged>>
    BY <1>5 DEF Crash, tableVars
  <2> QED
    BY <2>1 DEF RecordedInv, Recorded
<1>6. CASE UNCHANGED vars
  BY <1>6 DEF vars, RecordedInv, Recorded, execVars, tableVars
<1> QED
  BY <1>1, <1>2, <1>3, <1>4, <1>5, <1>6 DEF Next

\* What an Execute has recorded stays recorded, whoever cancels and whatever fails,
\* until a failed statement is logged and passed over.
THEOREM RecordedInvariant == Spec => []RecordedInv
  BY InitRecordedInv, NextRecordedInv, IInvInvariant, PTL DEF Spec

-----------------------------------------------------------------------------
\* What the events of an order nobody touched are at each place of its Execute.
Quiet(o) ==
  /\ status[o] # "CANCELLED"
  /\ pc[o] \in {"idle"} \cup Running => events[o] = {}
  /\ pc[o] = "ok" => events[o] = {"SENT"}
  /\ pc[o] = "error" /\ attempt[o] > 0 => events[o] = {"REJECTED"}

QuietInv == \A o \in Orders : Untouched(o) => Quiet(o)

LEMMA QuietStep ==
  ASSUME TypeOK, NEW o \in Orders, OrderInv(o), Quiet(o),
         Begin(o) \/ ExecuteStep(o), ~logged'[o]
  PROVE  Quiet(o)'
<1> USE DEF Quiet, At, Goto, Running
<1>1. CASE Begin(o)
  BY <1>1 DEF Begin, TypeOK, tableVars
<1>2. CASE CreateOrder(o)
  <2>1. /\ pc[o] = "create" /\ pc'[o] \in {"submit", "error"}
        /\ status'[o] \in {status[o], "PENDING"}
        /\ attempt' = attempt /\ events' = events /\ attempt[o] = 0
    BY <1>2 DEF CreateOrder, OrderInv, TypeOK
  <2> QED
    BY <2>1
<1>3. CASE SubmitAnswered(o) \/ SubmitAnswerLost(o) \/ SubmitNotTaken(o)
  <2>1. /\ pc[o] = "submit"
        /\ pc'[o] \in {"submit", "saveExecution", "markRejected"}
        /\ tableVars' = tableVars /\ events' = events
    BY <1>3 DEF SubmitAnswered, SubmitAnswerLost, SubmitNotTaken, Retry, TypeOK
  <2> QED
    BY <2>1 DEF tableVars
<1>4. CASE SaveExecution(o)
  BY <1>4 DEF SaveExecution, TypeOK
<1>5. CASE MarkSent(o) \/ MarkRejected(o)
  <2>1. /\ pc[o] \in Running /\ pc'[o] \in {"publishSent", "publishRejected"}
        /\ status'[o] \in {status[o], "SENT", "REJECTED"} /\ events' = events
    BY <1>5 DEF MarkSent, MarkRejected, UpdateOrderStatus, TypeOK
  <2> QED
    BY <2>1
<1>6. CASE PublishSent(o)
  <2>1. pc[o] = "publishSent" /\ pc'[o] = "ok" /\ tableVars' = tableVars
    BY <1>6 DEF PublishSent, TypeOK
  <2>2. events'[o] = events[o] \cup {"SENT"}
    BY <1>6, PublishedUnlessLogged DEF PublishSent
  <2> QED
    BY <2>1, <2>2 DEF tableVars
<1>7. CASE PublishRejected(o)
  <2>1. /\ pc[o] = "publishRejected" /\ pc'[o] = "error"
        /\ tableVars' = tableVars
    BY <1>7 DEF PublishRejected, TypeOK
  <2>2. events'[o] = events[o] \cup {"REJECTED"}
    BY <1>7, PublishedUnlessLogged DEF PublishRejected
  <2> QED
    BY <2>1, <2>2 DEF tableVars
<1> QED
  BY <1>1, <1>2, <1>3, <1>4, <1>5, <1>6, <1>7 DEF ExecuteStep

\* No Execute has begun in the initial state.
LEMMA InitQuietInv == Init => QuietInv
  BY DEF Init, QuietInv, Quiet

\* As long as no failure is passed over and no Cancel names the order, only its own
\* Execute writes its row or publishes for it.
LEMMA NextQuietInv ==
  ASSUME IInv, RecordedInv, QuietInv, [Next]_vars
  PROVE  QuietInv'
<1>1. ASSUME NEW o \in Orders, Begin(o) \/ ExecuteStep(o)
      PROVE  QuietInv'
  <2>1. UNCHANGED target /\ \A q \in Orders \ {o} : Kept(q)
    BY <1>1, OnlyOwnCall DEF IInv, cancelVars
  <2>2. ~logged'[o] => ~logged[o]
    BY <1>1, RecordedStep DEF IInv, RecordedInv
  <2>3. ASSUME Untouched(o)'
        PROVE  Quiet(o)'
    <3>1. Quiet(o) /\ ~logged'[o]
      BY <2>1, <2>2, <2>3 DEF Untouched, QuietInv
    <3> QED
      BY <3>1, <1>1, QuietStep DEF IInv
  <2>4. ASSUME NEW q \in Orders \ {o}, Untouched(q)'
        PROVE  Quiet(q)'
    <3>1. Quiet(q)
      BY <2>1, <2>4 DEF Untouched, QuietInv, Kept
    <3> QED
      BY <3>1, <2>1 DEF Quiet, Kept
  <2> QED
    BY <2>3, <2>4 DEF QuietInv
<1>2. ASSUME NEW c \in Cancellers, CancelStep(c)
      PROVE  QuietInv'
  <2>1. /\ UNCHANGED <<pc, attempt, target>>
        /\ \A o \in Orders \ {target[c]} :
             status'[o] = status[o] /\ events'[o] = events[o] /\ logged'[o] = logged[o]
    BY <1>2, OnlyOwnCancel DEF IInv, execVars
  <2> QED
    BY <2>1 DEF QuietInv, Quiet, Untouched
<1>3. ASSUME NEW c \in Cancellers, NEW o \in Orders, CancelGetOrder(c, o)
      PROVE  QuietInv'
  <2>1. /\ target' = [target EXCEPT ![c] = o] /\ target[c] = NoOrder
        /\ UNCHANGED <<pc, attempt, status, events, logged>>
    BY <1>3 DEF CancelGetOrder, IInv, CancelInv, execVars, tableVars
  <2>2. \A q \in Orders : Untouched(q)' => Untouched(q)
    BY <2>1, OrdersAssumption DEF IInv, TypeOK, Untouched
  <2> QED
    BY <2>1, <2>2 DEF QuietInv, Quiet
<1>4. ASSUME NEW S \in SUBSET Orders, EndContexts(S)
      PROVE  QuietInv'
  BY <1>4 DEF EndContexts, QuietInv, Quiet, Untouched, execVars, tableVars, cancelVars
<1>5. CASE Crash
  <2>1. /\ \A o \in Orders : pc'[o] = "crashed" \/ pc'[o] = pc[o]
        /\ UNCHANGED <<attempt, status, events, logged, target>>
    BY <1>5 DEF Crash, tableVars
  <2> QED
    BY <2>1 DEF QuietInv, Quiet, Untouched, Running
<1>6. CASE UNCHANGED vars
  BY <1>6 DEF vars, QuietInv, Quiet, Untouched, execVars, tableVars, cancelVars
<1> QED
  BY <1>1, <1>2, <1>3, <1>4, <1>5, <1>6 DEF Next

\* What Execute returned, the row and the events agree for every order without a
\* failure that was passed over and without a Cancel (order_executor.go:63-103).
THEOREM OutcomesAgreeInvariant == Spec => []OutcomesAgree
<1>1. ASSUME IInv, RecordedInv, QuietInv
      PROVE  OutcomesAgree
  <2> SUFFICES ASSUME NEW o \in Orders, Untouched(o)
               PROVE  /\ pc[o] = "ok" => /\ status[o] = "SENT"
                                         /\ brokerId[o] = placed[o]
                                         /\ events[o] = {"SENT"}
                      /\ pc[o] = "error" /\ attempt[o] > 0 =>
                           status[o] = "REJECTED" /\ events[o] = {"REJECTED"}
    BY DEF OutcomesAgree
  <2>1. Quiet(o) /\ Recorded(o) /\ OrderInv(o) /\ TypeOK
    BY <1>1 DEF IInv, QuietInv, RecordedInv, Untouched
  <2>2. pc[o] = "ok" => kisId[o] = placed[o]
    BY <2>1 DEF OrderInv, Answered, TypeOK
  <2> QED
    BY <2>1, <2>2 DEF Quiet, Recorded, TypeOK
<1> QED
  BY <1>1, InitQuietInv, NextQuietInv, IInvInvariant, RecordedInvariant, PTL
  DEF Spec

-----------------------------------------------------------------------------
\* With ids learnt from events: a Cancel of an order at the broker holds the id of
\* that order, and no row is CANCELLED while its Execute still runs.
Holds(c) ==
  cpc[c] \in {"cancelAtBroker", "updateStatus"} =>
    (placed[target[c]] > 0 /\ ~logged[target[c]] => readId[c] = placed[target[c]])

ReachInv == /\ \A o \in Orders : pc[o] \in {"idle"} \cup Running =>
                                   status[o] # "CANCELLED"
            /\ \A c \in Cancellers : Holds(c)
            /\ CancelReachesBroker

LEMMA InitReachInv == Init => ReachInv
  BY DEF Init, ReachInv, Holds, CancelReachesBroker

\* A step of Execute finds its order without an event, so no Cancel holds its id.
LEMMA ReachExecuteStep ==
  ASSUME IInv, EventsInv, RecordedInv, ReachInv, NEW o \in Orders,
         Begin(o) \/ ExecuteStep(o)
  PROVE  ReachInv'
<1>1. UNCHANGED cancelVars /\ \A q \in Orders \ {o} : Kept(q)
  BY OnlyOwnCall DEF IInv
<1>2. pc[o] \in {"idle"} \cup Running
  BY CallIsActive
<1>3. status'[o] \in {status[o], "PENDING", "SENT", "REJECTED"}
  BY DEF IInv, TypeOK, Begin, ExecuteStep, CreateOrder, SubmitAnswered,
         SubmitAnswerLost, SubmitNotTaken, SaveExecution, MarkSent, PublishSent,
         MarkRejected, PublishRejected, UpdateOrderStatus, tableVars
<1>4. status'[o] # "CANCELLED"
  BY <1>2, <1>3 DEF ReachInv
<1>5. \A q \in Orders : pc'[q] \in {"idle"} \cup Running => status'[q] # "CANCELLED"
  BY <1>1, <1>4 DEF ReachInv, Kept
<1>6. \A c \in Cancellers : cpc[c] \in Cancelling => target[c] \in Orders \ {o}
  BY <1>2 DEF EventsInv, Running
<1>7. \A c \in Cancellers : Holds(c)'
  BY <1>1, <1>6 DEF ReachInv, Holds, Kept, Cancelling, cancelVars
<1>8. CancelReachesBroker'
  BY <1>1, <1>4 DEF ReachInv, CancelReachesBroker, Kept, cancelVars
<1> QED
  BY <1>5, <1>7, <1>8 DEF ReachInv

\* A step of a Cancel makes CANCELLED only the row whose broker order it holds.
LEMMA ReachCancelStep ==
  ASSUME IInv, EventsInv, ReachInv, NEW c \in Cancellers, CancelStep(c)
  PROVE  ReachInv'
<1>1. /\ target[c] \in Orders
      /\ UNCHANGED <<pc, placed, target, readId>>
      /\ \A d \in Cancellers \ {c} : cpc'[d] = cpc[d]
      /\ CancelEffect(target[c])
      /\ \A o \in Orders \ {target[c]} : status'[o] = status[o] /\ logged'[o] = logged[o]
  BY OnlyOwnCancel DEF IInv, execVars
<1>2. cpc[c] \in Cancelling
  BY DEF CancelStep, CancelAtBroker, CancelUpdateStatus, CancelPublish, Cancelling
<1>3. pc[target[c]] \in {"ok", "error"}
  BY <1>2 DEF EventsInv
<1>4. \A o \in Orders : pc'[o] \in {"idle"} \cup Running => status'[o] # "CANCELLED"
  BY <1>1, <1>3 DEF ReachInv, Running
<1>5. \A o \in Orders : logged[o] => logged'[o]
  BY <1>1 DEF CancelEffect
<1>6. cpc'[c] \in {"cancelAtBroker", "updateStatus"} =>
        cpc[c] \in {"cancelAtBroker", "updateStatus"}
  BY DEF IInv, TypeOK, CancelStep, CancelAtBroker, CancelUpdateStatus,
         CancelPublish, CancelTo
<1>7. ASSUME NEW d \in Cancellers,
             cpc'[d] \in {"cancelAtBroker", "updateStatus"}
      PROVE  Holds(d)'
  <2>1. Holds(d) /\ cpc[d] \in {"cancelAtBroker", "updateStatus"} /\ target[d] \in Orders
    BY <1>1, <1>6, <1>7 DEF ReachInv, EventsInv, Cancelling
  <2> QED
    BY <2>1, <1>1, <1>5 DEF Holds
<1>8. status'[target[c]] # status[target[c]] => cpc[c] = "updateStatus"
  BY DEF CancelStep, CancelAtBroker, CancelUpdateStatus, CancelPublish, tableVars
<1>9. ASSUME NEW o \in Orders, status'[o] = "CANCELLED", placed'[o] > 0, ~logged'[o]
      PROVE  \E d \in Cancellers : target'[d] = o /\ readId'[d] = placed'[o]
  <2>1. CASE status[o] = "CANCELLED"
    BY <2>1, <1>1, <1>5, <1>9 DEF ReachInv, CancelReachesBroker
  <2>2. CASE status[o] # "CANCELLED"
    <3>1. o = target[c] /\ cpc[c] = "updateStatus"
      BY <1>1, <1>8, <1>9, <2>2
    <3>2. readId[c] = placed[o]
      BY <3>1, <1>1, <1>5, <1>9 DEF ReachInv, Holds
    <3> QED
      BY <3>1, <3>2, <1>1
  <2> QED
    BY <2>1, <2>2
<1> QED
  BY <1>4, <1>7, <1>9 DEF ReachInv, Holds, CancelReachesBroker

\* A Cancel that reads a PENDING or SENT row finds Execute over and the id recorded.
LEMMA ReachGetOrder ==
  ASSUME LearnsFrom = "events", IInv, EventsInv, RecordedInv, ReachInv,
         NEW c \in Cancellers, NEW o \in Orders, CancelGetOrder(c, o)
  PROVE  ReachInv'
<1>1. /\ target' = [target EXCEPT ![c] = o] /\ target[c] = NoOrder
      /\ UNCHANGED <<pc, placed, status, logged>>
      /\ \/ readId' = [readId EXCEPT ![c] = brokerId[o]]
         \/ readId' = readId
  BY DEF CancelGetOrder, IInv, CancelInv, execVars, tableVars, brokerVars
<1>2. events[o] # {} /\ pc[o] \in {"ok", "error"}
  BY DEF CancelGetOrder, Known, EventsInv
<1>3. ASSUME cpc'[c] \in {"cancelAtBroker", "updateStatus"}, placed[o] > 0, ~logged[o]
      PROVE  readId'[c] = placed[o]
  <2>1. readId'[c] = brokerId[o] /\ status[o] \in {"PENDING", "SENT"}
    BY <1>3 DEF CancelGetOrder, CancelTo, IInv, TypeOK
  <2>2. attempt[o] # 0
    BY <1>3 DEF IInv, OrderInv, TypeOK
  <2>3. pc[o] = "ok" /\ brokerId[o] = kisId[o]
    BY <1>2, <1>3, <2>1, <2>2 DEF RecordedInv, Recorded
  <2>4. kisId[o] = placed[o]
    BY <2>3 DEF IInv, OrderInv, Answered, TypeOK
  <2> QED
    BY <2>1, <2>3, <2>4
<1>4. \A d \in Cancellers \ {c} :
        cpc'[d] = cpc[d] /\ target'[d] = target[d] /\ readId'[d] = readId[d]
  BY <1>1 DEF CancelGetOrder, CancelTo, IInv, TypeOK
<1>5. target'[c] = o
  BY <1>1 DEF IInv, TypeOK
<1>6. ASSUME NEW d \in Cancellers
      PROVE  Holds(d)'
  <2>1. CASE d = c
    BY <2>1, <1>1, <1>3, <1>5 DEF Holds
  <2>2. CASE d # c
    BY <2>2, <1>1, <1>4 DEF Holds, ReachInv
  <2> QED
    BY <2>1, <2>2
<1>7. ASSUME NEW q \in Orders, status'[q] = "CANCELLED", placed'[q] > 0, ~logged'[q]
      PROVE  \E d \in Cancellers : target'[d] = q /\ readId'[d] = placed'[q]
  <2>1. PICK d \in Cancellers : target[d] = q /\ readId[d] = placed[q]
    BY <1>1, <1>7 DEF ReachInv, CancelReachesBroker
  <2>2. d # c
    BY <2>1, <1>1, OrdersAssumption
  <2> QED
    BY <2>1, <2>2, <1>1, <1>4
<1> QED
  BY <1>1, <1>6, <1>7 DEF ReachInv, CancelReachesBroker

LEMMA NextReachInv ==
  ASSUME LearnsFrom = "events", IInv, EventsInv, RecordedInv, ReachInv, [Next]_vars
  PROVE  ReachInv'
<1>1. ASSUME NEW S \in SUBSET Orders, EndContexts(S)
      PROVE  ReachInv'
  BY <1>1 DEF EndContexts, ReachInv, Holds, CancelReachesBroker, execVars, tableVars,
              brokerVars, cancelVars
<1>2. CASE Crash
  <2>1. /\ \A o \in Orders : pc'[o] = "crashed" \/ pc'[o] = pc[o]
        /\ \A c \in Cancellers : cpc'[c] = "crashed" \/ cpc'[c] = cpc[c]
        /\ UNCHANGED <<status, placed, logged, target, readId>>
    BY <1>2 DEF Crash, tableVars, brokerVars
  <2> QED
    BY <2>1 DEF ReachInv, Holds, CancelReachesBroker, Running
<1>3. CASE UNCHANGED vars
  BY <1>3 DEF vars, ReachInv, Holds, CancelReachesBroker, execVars, tableVars,
              brokerVars, cancelVars
<1> QED
  BY <1>1, <1>2, <1>3, ReachExecuteStep, ReachCancelStep, ReachGetOrder DEF Next

\* If ids are learnt from order events, an order that reached the broker is CANCELLED
\* only by a Cancel that holds the id of its broker order, unless a failed statement
\* was passed over (order_executor.go:126-160).
THEOREM CancelReachesBrokerInvariant ==
  ASSUME LearnsFrom = "events"
  PROVE  Spec => []CancelReachesBroker
<1>1. IInv /\ EventsInv /\ [Next]_vars => EventsInv'
  BY NextEventsInv
<1>2. IInv /\ EventsInv /\ RecordedInv /\ ReachInv /\ [Next]_vars => ReachInv'
  BY NextReachInv
<1>3. ReachInv => CancelReachesBroker
  BY DEF ReachInv
<1> QED
  BY <1>1, <1>2, <1>3, InitEventsInv, InitReachInv, IInvInvariant,
     RecordedInvariant, PTL DEF Spec

-----------------------------------------------------------------------------
(* The measure that Execute goes down by: what is left of liveness without *)
(* fairness.                                                               *)

\* The calls that are left to an Execute at most: one per submission that the retry
\* loop may still make, and those of its way out.
StepsLeft(o) ==
  CASE pc[o] = "idle" -> MaxRetries + 6
    [] pc[o] = "create" -> MaxRetries + 5
    [] pc[o] = "submit" -> MaxRetries + 4 - attempt[o]
    [] pc[o] = "saveExecution" -> 3
    [] pc[o] \in {"markSent", "markRejected"} -> 2
    [] pc[o] \in {"publishSent", "publishRejected"} -> 1
    [] OTHER -> 0

\* The measure is a natural number, and zero of a call that is over and of no other.
LEMMA StepsLeftIsNat ==
  ASSUME IInv, NEW o \in Orders
  PROVE  /\ StepsLeft(o) \in Nat
         /\ StepsLeft(o) = 0 <=> pc[o] \in {"ok", "error", "crashed"}
<1>1. pc[o] \in ExecPC /\ attempt[o] \in Nat /\ (pc[o] = "submit" => attempt[o] <= MaxRetries)
  BY RetriesAssumption DEF IInv, TypeOK, OrderInv
<1> QED
  BY <1>1, RetriesAssumption DEF StepsLeft, ExecPC, Running

\* Whatever an outcome is, a step of Execute brings it nearer to its end.
LEMMA ExecuteStepDescends ==
  ASSUME IInv, NEW o \in Orders, ExecuteStep(o)
  PROVE  /\ StepsLeft(o)' < StepsLeft(o)
         /\ \A q \in Orders \ {o} : pc'[q] = pc[q] /\ attempt'[q] = attempt[q]
<1>1. /\ pc \in [Orders -> ExecPC] /\ attempt \in [Orders -> Nat]
      /\ pc[o] = "submit" => attempt[o] <= MaxRetries
      /\ pc[o] \in {"idle", "create"} => attempt[o] = 0
  BY RetriesAssumption DEF IInv, TypeOK, OrderInv
<1>2. CASE CreateOrder(o)
  BY <1>1, <1>2, RetriesAssumption DEF CreateOrder, Goto, At, StepsLeft
<1>3. CASE SubmitAnswered(o)
  BY <1>1, <1>3, RetriesAssumption DEF SubmitAnswered, Goto, At, StepsLeft
<1>4. CASE SubmitAnswerLost(o) \/ SubmitNotTaken(o)
  BY <1>1, <1>4, RetriesAssumption
  DEF SubmitAnswerLost, SubmitNotTaken, Retry, Goto, At, StepsLeft
<1>5. CASE SaveExecution(o)
  BY <1>1, <1>5 DEF SaveExecution, Goto, At, StepsLeft
<1>6. CASE MarkSent(o) \/ MarkRejected(o)
  BY <1>1, <1>6 DEF MarkSent, MarkRejected, UpdateOrderStatus, Goto, At, StepsLeft
<1>7. CASE PublishSent(o) \/ PublishRejected(o)
  BY <1>1, <1>7 DEF PublishSent, PublishRejected, Goto, At, StepsLeft
<1> QED
  BY <1>2, <1>3, <1>4, <1>5, <1>6, <1>7 DEF ExecuteStep

\* No step raises it: of no other call, of no Cancel, no end of a context, no crash.
LEMMA StepsNeverRaised ==
  ASSUME IInv, IInv', [Next]_vars, NEW o \in Orders
  PROVE  /\ StepsLeft(o) \in Nat /\ StepsLeft(o)' \in Nat
         /\ StepsLeft(o)' <= StepsLeft(o)
<1>1. StepsLeft(o) \in Nat /\ StepsLeft(o)' \in Nat
  <2>1. StepsLeft(o) \in Nat
    BY StepsLeftIsNat
  <2>2. /\ pc'[o] \in ExecPC /\ attempt'[o] \in Nat
        /\ pc'[o] = "submit" => attempt'[o] <= MaxRetries
    BY RetriesAssumption DEF IInv, TypeOK, OrderInv
  <2> QED
    BY <2>1, <2>2, RetriesAssumption DEF StepsLeft, ExecPC, Running
<1>2. pc'[o] = pc[o] /\ attempt'[o] = attempt[o] => StepsLeft(o)' = StepsLeft(o)
  BY DEF StepsLeft
<1>3. ASSUME NEW q \in Orders, ExecuteStep(q)
      PROVE  StepsLeft(o)' <= StepsLeft(o)
  <2>1. CASE q = o
    BY <1>1, <1>3, <2>1, ExecuteStepDescends
  <2>2. CASE q # o
    BY <1>1, <1>2, <1>3, <2>2, ExecuteStepDescends
  <2> QED
    BY <2>1, <2>2
<1>4. ASSUME NEW q \in Orders, Begin(q)
      PROVE  StepsLeft(o)' <= StepsLeft(o)
  <2>1. pc[q] = "idle" /\ pc' = [pc EXCEPT ![q] = "create"] /\ attempt' = attempt
    BY <1>4 DEF Begin, Goto, At
  <2>2. pc \in [Orders -> ExecPC]
    BY DEF IInv, TypeOK
  <2>3. CASE q = o
    BY <2>1, <2>2, <2>3, RetriesAssumption DEF StepsLeft
  <2>4. CASE q # o
    BY <1>1, <1>2, <2>1, <2>2, <2>4
  <2> QED
    BY <2>3, <2>4
<1>5. ASSUME Crash
      PROVE  StepsLeft(o)' <= StepsLeft(o)
  <2>1. attempt' = attempt
        /\ pc'[o] = IF pc[o] \in Running THEN "crashed" ELSE pc[o]
    BY <1>5 DEF Crash
  <2>2. CASE pc[o] \in Running
    BY <1>1, <2>1, <2>2 DEF StepsLeft
  <2>3. CASE pc[o] \notin Running
    BY <1>1, <1>2, <2>1, <2>3
  <2> QED
    BY <2>2, <2>3
<1>6. ASSUME UNCHANGED <<pc, attempt>>
      PROVE  StepsLeft(o)' <= StepsLeft(o)
  BY <1>1, <1>2, <1>6
<1>7. ASSUME NEW c \in Cancellers, CancelStep(c) \/ \E q \in Orders : CancelGetOrder(c, q)
      PROVE  UNCHANGED <<pc, attempt>>
  BY <1>7 DEF CancelStep, CancelAtBroker, CancelUpdateStatus, CancelPublish,
              CancelGetOrder, execVars
<1> QED
  BY <1>1, <1>3, <1>4, <1>5, <1>6, <1>7 DEF Next, EndContexts, execVars, vars

\* Execute ends after at most MaxRetries + 6 steps of its own, whatever fails
\* (kis_client.go:104-141, order_executor.go:63-109): each of its steps lowers StepsLeft
\* and no step of another call, no context that ends and no crash raises it.  What
\* fairness has to give for ExecuteReturns is only that these steps are taken.
THEOREM ExecuteProgress ==
  Spec => [][\A o \in Orders : /\ StepsLeft(o)' <= StepsLeft(o)
                              /\ ExecuteStep(o) => StepsLeft(o)' < StepsLeft(o)]_vars
<1>1. IInv /\ IInv' /\ [Next]_vars =>
        [\A o \in Orders : /\ StepsLeft(o)' <= StepsLeft(o)
                          /\ ExecuteStep(o) => StepsLeft(o)' < StepsLeft(o)]_vars
  BY StepsNeverRaised, ExecuteStepDescends
<1> QED
  BY <1>1, IInvInvariant, PTL DEF Spec
=============================================================================
