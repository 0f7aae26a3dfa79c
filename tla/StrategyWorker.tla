--------------------------- MODULE StrategyWorker ---------------------------
(***************************************************************************)
(* The strategy-worker: the Kafka loop of src/consumer/strategy_consumer.py *)
(* that runs execute_strategy of src/executor/strategy_executor.py for     *)
(* each approved strategy, and the shutdown of src/main.py, coroutines of  *)
(* one asyncio loop that interleave where they await.                      *)
(*                                                                         *)
(* The state that outlives the process is in PostgreSQL (the row of an     *)
(* execution and those of its orders) and in Kafka (the committed offset). *)
(* A statement that raises may or may not have been applied: the timeout   *)
(* of the pool and a lost connection do not tell.                          *)
(***************************************************************************)
EXTENDS Naturals, Sequences, FiniteSets, FiniteSetsExt

CONSTANTS LogLength,    \* bound: messages on strategy.approved
          Kind,         \* [1..LogLength -> Kinds], what each message holds
          Symbols,      \* [1..LogLength -> Nat], the number of symbols of
                        \* each strategy that get an order
          MaxFailures,  \* bound: calls that raise
          MaxEpochs     \* bound: restarts and rebalances

(* missing: a required field is not there; malformed: an identifier is no  *)
(* UUID; undecodable: not JSON.                                            *)
Kinds == {"valid", "missing", "malformed", "undecodable"}

ASSUME WorkerAssumption == /\ LogLength \in Nat /\ MaxEpochs \in Nat
                           /\ MaxFailures \in Nat
                           /\ Symbols \in [1..LogLength -> Nat]
                           /\ Kind \in [1..LogLength -> Kinds]

VARIABLES
  position,    \* last offset the loop was given
  committed,   \* last offset committed to the broker
  exec,        \* sequence of ExecutionRecord, one per execution begun
  active,      \* the keys of _active_executions
  tasks,       \* the keys of _execution_tasks
  cpc,         \* ConsumerPC, where the consume loop is
  sym,         \* index of the symbol in hand, 0 outside the loop over them
  down,        \* DownPC, where shutdown() is
  toStop,      \* the executions shutdown() has yet to stop
  cut,         \* whether asyncio.run has cancelled the tasks left
  failures,    \* calls that raised so far
  epoch,       \* restarts and rebalances so far
  logged       \* history: messages whose failure was logged

dbVars == <<committed, exec>>
memory == <<active, tasks>>
shutdownVars == <<down, toStop, cut>>
vars == <<position, dbVars, memory, cpc, sym, shutdownVars, failures, epoch,
          logged>>

OrderStatus == {"none", "PENDING", "ACCEPTED", "REJECTED"}
ExecutionRecord ==
  [strategy : 1..LogLength,           \* the message it was begun for
   epoch : 0..MaxEpochs,              \* value of epoch when it was begun
   row : {"none", "active", "error", "stopped"},  \* status of its row
   orders : Seq(OrderStatus),         \* status of the rows of its orders
   held : SUBSET Nat]                 \* positions of its monitor, in memory
Statements == {"create", "order", "refuse", "accept", "track", "reject",
               "markError", "commit"}
ConsumerPC == Statements \cup {"poll", "check", "cancelled", "died"}
DownPC == {"no", "kafka", "task", "monitor", "mark", "close", "done",
           "raised", "killed"}

cur == Len(exec)
This == exec[cur]

TypeOK == /\ position \in 0..LogLength /\ committed \in 0..LogLength
          /\ \A e \in DOMAIN exec :
               /\ exec[e] \in ExecutionRecord
               /\ Len(exec[e].orders) = Symbols[exec[e].strategy]
               /\ exec[e].held \subseteq DOMAIN exec[e].orders
          /\ active \subseteq DOMAIN exec /\ tasks \subseteq active
          /\ cpc \in ConsumerPC /\ sym \in Nat
          /\ down \in DownPC /\ toStop \subseteq DOMAIN exec /\ cut \in BOOLEAN
          /\ failures \in 0..MaxFailures /\ epoch \in 0..MaxEpochs
          /\ logged \subseteq 1..LogLength

Init == /\ position = 0 /\ committed = 0 /\ exec = <<>>
        /\ active = {} /\ tasks = {}
        /\ cpc = "poll" /\ sym = 0
        /\ down = "no" /\ toStop = {} /\ cut = FALSE
        /\ failures = 0 /\ epoch = 0 /\ logged = {}

-----------------------------------------------------------------------------
(* What the statement a call sends does when it is applied.                *)
OrderAfter == [order |-> "PENDING", refuse |-> "REJECTED",
               accept |-> "ACCEPTED", reject |-> "REJECTED"]
RowAfter == [create |-> "active", markError |-> "error"]
Apply(l) ==
  /\ committed' = IF l = "commit" THEN position ELSE committed
  /\ exec' = IF l \in DOMAIN OrderAfter
               THEN [exec EXCEPT ![cur].orders[sym] = OrderAfter[l]]
             ELSE IF l = "create" \/ (l = "markError" /\ This.row # "none")
               THEN [exec EXCEPT ![cur].row = RowAfter[l]]
             ELSE exec

(* Where an exception of each call leads: the except clauses around it.    *)
\* Mutant of OnError: a failed ACCEPTED update abandons the strategy quietly.
OnError_Abandons == [create |-> "markError", order |-> "markError",
                     check |-> "markError", refuse |-> "markError",
                     accept |-> "commit", track |-> "reject",
                     reject |-> "markError", markError |-> "poll",
                     commit |-> "poll"]
\* Mutant of OnError: the loop ends when a handler failed.
OnError_Breaks == [create |-> "markError", order |-> "markError",
                   check |-> "markError", refuse |-> "markError",
                   accept |-> "reject", track |-> "reject",
                   reject |-> "markError", markError |-> "cancelled",
                   commit |-> "poll"]
OnError == [create |-> "markError", order |-> "markError",
            check |-> "markError", refuse |-> "markError",
            accept |-> "reject", track |-> "reject",
            reject |-> "markError", markError |-> "poll", commit |-> "poll"]

(* execute_strategy leaves its try block or its handler, and the loop goes *)
(* on with the next message.                                               *)
LeavesHandler == /\ logged' = logged \cup {This.strategy}
                 /\ UNCHANGED position

-----------------------------------------------------------------------------
(* The loop over messages.  execute_strategy draws a fresh execution       *)
(* number once the identifiers have parsed.                                *)
NewExecution(m) == [strategy |-> m, epoch |-> epoch, row |-> "none",
                    orders |-> [s \in 1..Symbols[m] |-> "none"], held |-> {}]

\* Mutant of Deliver: the offset is committed before the strategy is executed.
Deliver_CommitsFirst ==
  /\ position' = position + 1 /\ cpc' = "create"
  /\ exec' = Append(exec, NewExecution(position + 1))
  /\ committed' = position + 1 /\ UNCHANGED logged
Deliver ==
  /\ position' = position + 1 /\ cpc' = "create"
  /\ exec' = Append(exec, NewExecution(position + 1))
  /\ UNCHANGED <<committed, logged>>

(* A message that is not JSON raises in the iterator, outside the handler: *)
(* the loop ends and the position stays.                                   *)
Poll ==
  /\ cpc = "poll" /\ position < LogLength
  /\ \/ Kind[position + 1] = "valid" /\ Deliver
     \/ /\ Kind[position + 1] = "missing"
        /\ position' = position + 1 /\ cpc' = "commit"
        /\ UNCHANGED <<dbVars, logged>>
     \/ /\ Kind[position + 1] = "malformed"
        /\ position' = position + 1 /\ logged' = logged \cup {position + 1}
        /\ UNCHANGED <<dbVars, cpc>>
     \/ /\ Kind[position + 1] = "undecodable"
        /\ cpc' = "died"
        /\ UNCHANGED <<position, dbVars, logged>>
  /\ UNCHANGED <<memory, sym, shutdownVars, failures, epoch>>

(* _execute_initial_orders goes on with a symbol; after the last one the   *)
(* rebalancing task is made, and the offset is committed.                  *)
GoOn(symbol) == IF symbol \in DOMAIN This.orders
                  THEN cpc' = "order" /\ sym' = symbol /\ UNCHANGED tasks
                  ELSE cpc' = "commit" /\ sym' = 0 /\ tasks' = tasks \cup {cur}

(* A call returns.  The monitor is started and entered once the row of the *)
(* execution is there.                                                     *)
Created == /\ cpc = "create" /\ Apply("create")
           /\ active' = active \cup {cur}
           /\ GoOn(1) /\ UNCHANGED <<position, logged>>
NextSymbol == GoOn(sym + 1) /\ UNCHANGED <<active, position, logged>>

Ordered == /\ cpc = "order" /\ Apply("order") /\ cpc' = "check"
           /\ UNCHANGED <<memory, sym, position, logged>>

(* check_order passes the order or not, as sizes, exposure and the day's   *)
(* loss have it.                                                           *)
Checked == /\ cpc = "check" /\ cpc' \in {"accept", "refuse"}
           /\ UNCHANGED <<dbVars, memory, sym, position, logged>>

Refused == cpc = "refuse" /\ Apply("refuse") /\ NextSymbol

(* add_position enters the position before it awaits the database.         *)
Accepted == /\ cpc = "accept" /\ UNCHANGED committed
            /\ exec' = [exec EXCEPT ![cur].orders[sym] = "ACCEPTED",
                                    ![cur].held = @ \cup {sym}]
            /\ cpc' = "track"
            /\ UNCHANGED <<memory, sym, position, logged>>

Tracked == cpc = "track" /\ Apply("track") /\ NextSymbol
Rejected == cpc = "reject" /\ Apply("reject") /\ NextSymbol

(* The handler raises again after the row is marked.                       *)
Marked == /\ cpc = "markError" /\ Apply("markError") /\ LeavesHandler
          /\ cpc' = "poll" /\ sym' = 0 /\ UNCHANGED memory

Committed == /\ cpc = "commit" /\ Apply("commit") /\ cpc' = "poll"
             /\ UNCHANGED <<memory, sym, position, logged>>

Answered == /\ \/ Created \/ Ordered \/ Checked \/ Refused \/ Accepted
               \/ Tracked \/ Rejected \/ Marked \/ Committed
            /\ UNCHANGED <<shutdownVars, failures, epoch>>

(* A call raises, its statement applied or not.                            *)
Raised ==
  /\ cpc \in DOMAIN OnError /\ failures < MaxFailures
  /\ Apply(cpc) \/ UNCHANGED dbVars
  /\ cpc' = OnError[cpc]
  /\ sym' = IF cpc' = "reject" THEN sym ELSE 0
  /\ IF cpc = "markError" THEN LeavesHandler ELSE UNCHANGED <<position, logged>>
  /\ failures' = failures + 1
  /\ UNCHANGED <<memory, shutdownVars, epoch>>

ConsumerStep == Answered \/ Raised

-----------------------------------------------------------------------------
(* SIGTERM or SIGINT: shutdown() cancels the consume loop where it awaits  *)
(* and waits for it; CancelledError is no Exception, so no handler of the  *)
(* strategy runs, and the statement in flight is applied or not.  A loop   *)
(* that died hands its exception to the await, which ends shutdown().      *)
StopConsumer == /\ Apply(cpc) \/ UNCHANGED dbVars
                /\ cpc' = "cancelled" /\ sym' = 0
                /\ down' = "kafka"
Signal ==
  /\ down = "no"
  /\ IF cpc = "died"
       THEN down' = "raised" /\ UNCHANGED <<dbVars, cpc, sym>>
       ELSE StopConsumer
  /\ UNCHANGED <<position, memory, toStop, cut, failures, epoch, logged>>

(* The broker connection is closed and the executions are listed.          *)
\* Mutant of ListExecutions: only executions that run a task are listed.
ListExecutions_OfTasks ==
  /\ toStop' = tasks /\ down' = IF tasks = {} THEN "close" ELSE "task"
ListExecutions ==
  /\ toStop' = active /\ down' = IF active = {} THEN "close" ELSE "task"

(* stop_execution of the one in hand, the oldest of them.                  *)
Stopping == Min(toStop)
StopTask == /\ down = "task" /\ down' = "monitor"
            /\ tasks' = tasks \ {Stopping}
            /\ UNCHANGED <<dbVars, active, toStop, failures>>

(* _close_all_positions looks the execution up among the active ones.      *)
ClosePositions(e, registered) ==
  exec' = IF e \in registered THEN [exec EXCEPT ![e].held = {}] ELSE exec

(* The monitor is stopped and removed before the positions are closed.     *)
StopMonitor == /\ down = "monitor" /\ down' = "mark"
               /\ active' = active \ {Stopping}
               /\ ClosePositions(Stopping, active')
               /\ UNCHANGED <<committed, tasks, toStop, failures>>

(* The row is marked; shutdown() logs an exception and goes on.            *)
MarkStopped ==
  /\ down = "mark"
  /\ \/ exec' = [exec EXCEPT ![Stopping].row = "stopped"] /\ UNCHANGED failures
     \/ /\ failures < MaxFailures /\ failures' = failures + 1
        /\ exec' \in {exec, [exec EXCEPT ![Stopping].row = "stopped"]}
  /\ toStop' = toStop \ {Stopping}
  /\ down' = IF toStop' = {} THEN "close" ELSE "task"
  /\ UNCHANGED <<committed, memory>>

ShutdownStep ==
  /\ \/ /\ down = "kafka" /\ ListExecutions
        /\ UNCHANGED <<dbVars, memory, failures>>
     \/ StopTask \/ StopMonitor \/ MarkStopped
     \/ /\ down = "close" /\ down' = "done"
        /\ UNCHANGED <<dbVars, memory, toStop, failures>>
  /\ UNCHANGED <<position, cpc, sym, cut, epoch, logged>>

(* run() sees the flag within a second and returns, and asyncio.run        *)
(* cancels the tasks that are left, shutdown() among them.  The two awaits *)
(* of a cancelled task swallow it, the other awaits do not.                *)
RunReturns ==
  /\ down \in {"kafka", "task", "monitor", "mark", "close"} /\ ~cut
  /\ cut' = TRUE
  /\ down' = IF down \in {"task", "monitor"} THEN down ELSE "killed"
  /\ UNCHANGED <<position, dbVars, memory, cpc, sym, toStop, failures, epoch,
                 logged>>

(* The process is gone, at any point, and a new one resumes after the last *)
(* committed offset.  Nothing reads the rows the old one left.             *)
Restart ==
  /\ epoch < MaxEpochs /\ epoch' = epoch + 1
  /\ position' = committed
  /\ exec' = [e \in DOMAIN exec |-> [exec[e] EXCEPT !.held = {}]]
  /\ active' = {} /\ tasks' = {} /\ cpc' = "poll" /\ sym' = 0
  /\ down' = "no" /\ toStop' = {} /\ cut' = FALSE
  /\ UNCHANGED <<committed, failures, logged>>

(* The group rebalances, as when handling a message takes longer than the  *)
(* poll interval: the loop goes on after the committed offset.             *)
Rebalance ==
  /\ epoch < MaxEpochs /\ epoch' = epoch + 1
  /\ cpc # "cancelled"
  /\ position' = committed
  /\ UNCHANGED <<dbVars, memory, cpc, sym, shutdownVars, failures, logged>>

Next == Poll \/ ConsumerStep \/ Signal \/ ShutdownStep \/ RunReturns \/ Restart
        \/ Rebalance

Spec == Init /\ [][Next]_vars
(* A poll returns while there are messages, and every call returns or      *)
(* raises: the pool has a command timeout.                                 *)
LiveSpec == /\ Spec
            /\ WF_vars(Poll) /\ WF_vars(ConsumerStep)

-----------------------------------------------------------------------------
Executed(m) == \E e \in DOMAIN exec :
                 /\ exec[e].strategy = m /\ exec[e].row \in {"active", "stopped"}
                 /\ \A s \in DOMAIN exec[e].orders :
                      exec[e].orders[s] \in {"ACCEPTED", "REJECTED"}
Settled(m) == Kind[m] = "missing" \/ m \in logged \/ Executed(m)

(* A strategy whose offset is committed was executed, every order of it    *)
(* decided, or its failure was logged, whatever raised or crashed on the   *)
(* way (strategy_consumer.py: "Manual commit after successful processing"); and *)
(* it is executed a second time, its orders placed again, only if a        *)
(* restart or a rebalance came before its offset was committed.            *)
EveryStrategyAccounted ==
  /\ TypeOK
  /\ \A m \in 1..committed : Settled(m)
  /\ \A d, e \in DOMAIN exec :
       d < e /\ exec[d].strategy = exec[e].strategy => exec[d].epoch < exec[e].epoch

(* The positions of a running monitor and the order table agree: each      *)
(* position has an order that was accepted, and each accepted order has    *)
(* its position, unless the calls after it raised or were cut off.         *)
OrdersMatchPositions ==
  \A e \in active : \A s \in DOMAIN exec[e].orders :
    LET order == exec[e].orders[s] IN
    /\ s \in exec[e].held => order \in {"ACCEPTED", "REJECTED"}
    /\ order = "ACCEPTED" /\ s \notin exec[e].held =>
         \/ exec[e].strategy \in logged
         \/ e = cur /\ cpc \in {"reject", "markError", "cancelled"}

(* When shutdown() returns, no execution that was begun runs a task or a   *)
(* monitor, the one that was being set up included, and no more can start. *)
ShutdownStopsAll ==
  down = "done" => active = {} /\ tasks = {} /\ cpc = "cancelled"

(* Every message before one that is not JSON is settled while the process  *)
(* is not shut down: a failing strategy does not hold up the next.  And    *)
(* what is settled stays so: no order of a stopped execution is placed or  *)
(* changed, its row is not overwritten and it does not run again.          *)
EveryStrategySettled ==
  /\ \A m \in 1..LogLength :
       (\A n \in 1..m : Kind[n] # "undecodable") => <>(Settled(m) \/ down # "no")
  /\ [][\A e \in DOMAIN exec : exec[e].row = "stopped" =>
          /\ exec'[e].row = "stopped" /\ exec'[e].orders = exec[e].orders
          /\ e \notin active']_vars

(* A shutdown that returned has closed every position of the executions it *)
(* stopped: README.md:17 "Closes all positions before stopping" and        *)
(* strategy_executor.py:148 "Close all positions".                         *)
ShutdownClosesPositions ==
  down = "done" => \A e \in DOMAIN exec : exec[e].held = {}
=============================================================================
