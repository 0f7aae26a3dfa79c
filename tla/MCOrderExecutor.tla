--------------------------- MODULE MCOrderExecutor ---------------------------
(***************************************************************************)
(* Small instances of OrderExecutor for TLC.  A behaviour is either one of *)
(* OrderExecutor itself, where the caller of Cancel learns ids from order  *)
(* events, or one of OrderCallers, where it reads them from the table and  *)
(* there are more orders; the other instance stays in its initial state,   *)
(* so that the state spaces add up instead of multiplying.                 *)
(***************************************************************************)
EXTENDS OrderExecutor, OrderCallers

VARIABLE part

tableInstance == <<tPc, tAttempt, tKisId, tStatus, tBrokerId, tPlaced, tWithdrawn, tEvents,
                   tLogged, tCtxDone, tCpc, tTarget, tReadId>>

MCInit == part \in {"events", "table"} /\ Init /\ Table!Init

EventsStep == part = "events" /\ Next /\ UNCHANGED <<part, tableInstance>>
TableStep == part = "table" /\ Table!Next /\ UNCHANGED <<part, vars>>

\* The fairness of OrderExecutor, for its own behaviours.
EventsFairness ==
  /\ \A o \in Orders : WF_vars(part = "events" /\ ExecuteStep(o))
  /\ \A c \in Cancellers : WF_vars(part = "events" /\ CancelStep(c))

MCSpec == /\ MCInit
          /\ [][EventsStep \/ TableStep]_<<part, vars, tableInstance>>
          /\ EventsFairness
=============================================================================
