----------------------------- MODULE OrderCallers -----------------------------
(***************************************************************************)
(* Calls of Execute and Cancel whose callers read the ids they cancel from *)
(* the orders table instead of the order events: OrderExecutor with        *)
(* variables of its own, beside one that learns its ids from the events.   *)
(***************************************************************************)
EXTENDS Naturals

CONSTANTS TableOrders, TableCancellers, TableNone, TableRetries
ASSUME CallersAssumption == TableNone \notin TableOrders /\ TableRetries \in Nat

VARIABLES tPc, tAttempt, tKisId, tStatus, tBrokerId, tPlaced, tWithdrawn, tEvents,
          tLogged, tCtxDone, tCpc, tTarget, tReadId

Table == INSTANCE OrderExecutor
  WITH Orders <- TableOrders, Cancellers <- TableCancellers, NoOrder <- TableNone,
       MaxRetries <- TableRetries, LearnsFrom <- "table",
       pc <- tPc, attempt <- tAttempt, kisId <- tKisId, status <- tStatus,
       brokerId <- tBrokerId, placed <- tPlaced, withdrawn <- tWithdrawn,
       events <- tEvents, logged <- tLogged, ctxDone <- tCtxDone,
       cpc <- tCpc, target <- tTarget, readId <- tReadId

\* What Execute promises does not depend on where the caller of Cancel gets its ids
\* from (order_executor.go:63-160): with ids from the table a Cancel may overlap the
\* Execute of its order, and still the table is true of the broker, the exposure is
\* bounded, and what nobody cancelled and nothing failed for agrees everywhere.
AnyCallerIsSafe == Table!TableIsTrue /\ Table!ExposureBounded /\ Table!OutcomesAgree
=============================================================================
