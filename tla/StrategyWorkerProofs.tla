------------------------- MODULE StrategyWorkerProofs -------------------------
(***************************************************************************)
(* Proofs about StrategyWorker, for any log, any number of orders of each  *)
(* strategy, any number of failures, restarts and rebalances.              *)
(*                                                                         *)
(* IInv says where execute_strategy is (CurrentInv), that only the message *)
(* in its hands is still unsettled below the position (SettledInv), that a *)
(* second execution of a strategy belongs to a later epoch (EpochInv),     *)
(* that only the order in hand can lack its position, and what shutdown()  *)
(* has done so far (DownInv).                                              *)
(***************************************************************************)
EXTENDS StrategyWorker, SequenceTheorems, TLAPS

\* execute_strategy is on the stack of the loop.
Handling == {"create", "order", "check", "refuse", "accept", "track", "reject", "markError"}
OnSymbol == {"order", "check", "refuse", "accept", "track", "reject"}
Decided == {"ACCEPTED", "REJECTED"}

Executions == {r \in ExecutionRecord : /\ Len(r.orders) = Symbols[r.strategy]
                                       /\ r.held \subseteq DOMAIN r.orders}

Types == /\ position \in 0..LogLength /\ committed \in 0..position
         /\ exec \in Seq(Executions)
         /\ active \subseteq DOMAIN exec /\ tasks \subseteq active
         /\ cpc \in ConsumerPC /\ sym \in Nat
         /\ down \in DownPC /\ toStop \subseteq DOMAIN exec /\ cut \in BOOLEAN
         /\ failures \in 0..MaxFailures /\ epoch \in 0..MaxEpochs
         /\ logged \subseteq 1..LogLength

\* The execution in hand, and how far it is: the orders before the one in hand are
\* decided and those after it are not there.
CurrentInv ==
  /\ cpc \in Handling => cur # 0 /\ This.row \in {"none", "active", "error"}
  /\ cpc = "create" => /\ This.row = "none" /\ This.held = {}
                       /\ \A s \in DOMAIN This.orders : This.orders[s] = "none"
  /\ cpc \in OnSymbol =>
       /\ cur \in active /\ This.row = "active" /\ sym \in DOMAIN This.orders
       /\ \A s \in DOMAIN This.orders :
            /\ s < sym => This.orders[s] \in Decided
            /\ s > sym => This.orders[s] = "none"
            /\ s # sym /\ This.orders[s] = "ACCEPTED" => s \in This.held
  /\ cpc = "order" => This.orders[sym] = "none"
  /\ cpc \in {"check", "refuse", "accept"} => This.orders[sym] = "PENDING"
  /\ cpc = "track" => This.orders[sym] = "ACCEPTED" /\ sym \in This.held

\* What is settled: everything committed, and everything below the position but the
\* message in hand, which is beyond what is committed.
SettledInv ==
  /\ \A m \in 1..committed : Settled(m)
  /\ cpc \in Handling => /\ committed < This.strategy
                         /\ \A m \in 1..position : m = This.strategy \/ Settled(m)
  /\ cpc \in {"poll", "commit", "died"} => \A m \in 1..position : Settled(m)

\* Executions of the current epoch are of messages up to the position, so that the
\* next one is of a later message or of a later epoch.
EpochInv ==
  /\ \A e \in DOMAIN exec :
       exec[e].epoch <= epoch /\ (exec[e].epoch = epoch => exec[e].strategy <= position)
  /\ \A d, e \in DOMAIN exec :
       d < e /\ exec[d].strategy = exec[e].strategy => exec[d].epoch < exec[e].epoch

\* The consume loop is gone before the executions are stopped, and each of them is
\* stopped one by one.
DownInv ==
  /\ down = "no" <=> cpc # "cancelled" /\ down # "raised"
  /\ down = "raised" => cpc = "died"
  /\ down = "task" => active \subseteq toStop
  /\ down = "monitor" => active \subseteq toStop /\ Stopping \notin tasks
  /\ down = "mark" => active \subseteq toStop \ {Stopping}
  /\ down \in {"close", "done"} => active = {}

\* A stopped execution is no longer active, nor in the hands of the loop.
StoppedInv ==
  \A e \in DOMAIN exec : exec[e].row = "stopped" => e \notin active

IInv == /\ Types /\ CurrentInv /\ SettledInv /\ EpochInv
        /\ OrdersMatchPositions /\ DownInv /\ StoppedInv

-----------------------------------------------------------------------------
(* The sequence of executions and the ways in which a step rewrites it.    *)

LEMMA ExecFacts ==
  ASSUME Types
  PROVE  /\ cur \in Nat /\ DOMAIN exec = 1..cur /\ exec \in [1..cur -> Executions]
         /\ cur # 0 => cur \in DOMAIN exec
         /\ position \in Nat /\ committed \in Nat /\ epoch \in Nat /\ LogLength \in Nat
         /\ committed <= position /\ position <= LogLength
<1>1. cur \in Nat /\ DOMAIN exec = 1..cur /\ exec \in [1..cur -> Executions]
  BY LenProperties DEF Types, cur
<1> QED
  BY <1>1, WorkerAssumption DEF Types

\* The fields of an execution.
LEMMA FieldTypes ==
  ASSUME NEW r \in Executions
  PROVE  /\ r.strategy \in 1..LogLength /\ r.epoch \in 0..MaxEpochs
         /\ r.row \in {"none", "active", "error", "stopped"}
         /\ r.orders \in Seq(OrderStatus) /\ Len(r.orders) = Symbols[r.strategy]
         /\ DOMAIN r.orders = 1..Len(r.orders) /\ Len(r.orders) \in Nat
         /\ \A s \in DOMAIN r.orders : r.orders[s] \in OrderStatus
         /\ r.held \subseteq DOMAIN r.orders
         /\ r = [strategy |-> r.strategy, epoch |-> r.epoch, row |-> r.row,
                 orders |-> r.orders, held |-> r.held]
<1>1. r \in ExecutionRecord /\ Len(r.orders) = Symbols[r.strategy]
      /\ r.held \subseteq DOMAIN r.orders
  BY DEF Executions
<1>2. r.orders \in Seq(OrderStatus)
  BY <1>1 DEF ExecutionRecord
<1>3. /\ DOMAIN r.orders = 1..Len(r.orders) /\ Len(r.orders) \in Nat
      /\ r.orders \in [1..Len(r.orders) -> OrderStatus]
  BY <1>2, LenProperties
<1> QED
  BY <1>1, <1>2, <1>3 DEF ExecutionRecord

\* Only execution k is rewritten, to r.
LEMMA Change ==
  ASSUME Types, NEW k \in DOMAIN exec, NEW r \in Executions, exec' = [exec EXCEPT ![k] = r]
  PROVE  /\ exec' \in Seq(Executions) /\ cur' = cur /\ DOMAIN exec' = DOMAIN exec
         /\ exec'[k] = r /\ \A e \in DOMAIN exec : e # k => exec'[e] = exec[e]
<1>1. exec \in Seq(Executions) /\ k \in 1..Len(exec)
  BY ExecFacts DEF Types, cur
<1>2. exec' \in Seq(Executions) /\ Len(exec') = Len(exec)
  BY <1>1, ExceptSeq
<1>3. exec'[k] = r /\ \A e \in DOMAIN exec : e # k => exec'[e] = exec[e]
  BY <1>1, ExecFacts
<1> QED
  BY <1>2, <1>3 DEF cur

\* A step that rewrites the execution in hand at most, and of it neither what it is of
\* nor the number of its orders; nothing is stopped.
CurOnly ==
  /\ exec' \in Seq(Executions) /\ cur' = cur /\ DOMAIN exec' = DOMAIN exec
  /\ \A e \in DOMAIN exec :
       /\ e # cur => exec'[e] = exec[e]
       /\ exec'[e].strategy = exec[e].strategy /\ exec'[e].epoch = exec[e].epoch
       /\ exec'[e].row = "stopped" => exec[e].row = "stopped"
       /\ DOMAIN exec'[e].orders = DOMAIN exec[e].orders

LEMMA OrderFields ==
  ASSUME NEW t \in ExecutionRecord, NEW os, NEW H
  PROVE  [t EXCEPT !.orders = os, !.held = H]
           = [strategy |-> t.strategy, epoch |-> t.epoch, row |-> t.row,
              orders |-> os, held |-> H]
<1> DEFINE u == [t EXCEPT !.orders = os]
<1>1. u = [strategy |-> t.strategy, epoch |-> t.epoch, row |-> t.row,
           orders |-> os, held |-> t.held]
  BY DEF ExecutionRecord
<1>2. [t EXCEPT !.orders = os, !.held = H] = [u EXCEPT !.held = H]
  BY DEF ExecutionRecord
<1> HIDE DEF u
<1> QED
  BY <1>1, <1>2

\* An order of the execution in hand gets another status.
LEMMA OrderChange ==
  ASSUME Types, cur # 0, sym \in DOMAIN This.orders, NEW v \in OrderStatus,
         NEW H \in SUBSET DOMAIN This.orders,
         exec' = [exec EXCEPT ![cur] =
                   [This EXCEPT !.orders = [This.orders EXCEPT ![sym] = v], !.held = H]]
  PROVE  /\ CurOnly
         /\ This'.row = This.row /\ This'.held = H
         /\ \A s \in DOMAIN This.orders :
              This'.orders[s] = IF s = sym THEN v ELSE This.orders[s]
<1> DEFINE os == [This.orders EXCEPT ![sym] = v]
           r == [This EXCEPT !.orders = os, !.held = H]
<1>1. cur \in DOMAIN exec /\ This \in Executions
  BY ExecFacts DEF This
<1>2. /\ This.orders \in Seq(OrderStatus) /\ sym \in 1..Len(This.orders)
      /\ DOMAIN This.orders = 1..Len(This.orders) /\ Len(This.orders) \in Nat
      /\ This.strategy \in 1..LogLength /\ This.epoch \in 0..MaxEpochs
      /\ This.row \in {"none", "active", "error", "stopped"}
      /\ Len(This.orders) = Symbols[This.strategy]
  BY <1>1, FieldTypes
<1>3. os \in Seq(OrderStatus) /\ Len(os) = Len(This.orders) /\ DOMAIN os = DOMAIN This.orders
  BY <1>2, ExceptSeq
<1>4. \A s \in DOMAIN This.orders : os[s] = IF s = sym THEN v ELSE This.orders[s]
  BY <1>2
<1> HIDE DEF os
<1>5. r = [strategy |-> This.strategy, epoch |-> This.epoch, row |-> This.row,
           orders |-> os, held |-> H]
  BY <1>1, OrderFields DEF Executions
<1>6. H \subseteq Nat
  BY <1>2
<1>7. r \in Executions
  BY <1>2, <1>3, <1>5, <1>6 DEF Executions, ExecutionRecord
<1>8. exec' = [exec EXCEPT ![cur] = r]
  BY DEF os
<1> HIDE DEF r
<1>9. /\ exec' \in Seq(Executions) /\ cur' = cur /\ DOMAIN exec' = DOMAIN exec
      /\ exec'[cur] = r /\ \A e \in DOMAIN exec : e # cur => exec'[e] = exec[e]
  BY <1>1, <1>7, <1>8, Change
<1>10. This' = r
  BY <1>9 DEF This
<1>11. CurOnly
  BY <1>3, <1>5, <1>9 DEF CurOnly, This
<1> QED
  BY <1>4, <1>5, <1>10, <1>11

\* The row of an execution gets another status.
LEMMA RowChange ==
  ASSUME Types, NEW k \in DOMAIN exec, NEW v \in {"none", "active", "error", "stopped"},
         exec' = [exec EXCEPT ![k].row = v]
  PROVE  /\ exec' \in Seq(Executions) /\ cur' = cur /\ DOMAIN exec' = DOMAIN exec
         /\ \A e \in DOMAIN exec : e # k => exec'[e] = exec[e]
         /\ exec'[k].row = v /\ exec'[k].strategy = exec[k].strategy
         /\ exec'[k].epoch = exec[k].epoch
         /\ exec'[k].orders = exec[k].orders /\ exec'[k].held = exec[k].held
<1> DEFINE r == [exec[k] EXCEPT !.row = v]
<1>1. exec[k] \in Executions
  BY ExecFacts
<1>2. /\ exec[k] = [strategy |-> exec[k].strategy, epoch |-> exec[k].epoch,
                    row |-> exec[k].row, orders |-> exec[k].orders, held |-> exec[k].held]
      /\ exec[k] \in ExecutionRecord
  BY <1>1, FieldTypes DEF Executions
<1>3. r = [strategy |-> exec[k].strategy, epoch |-> exec[k].epoch, row |-> v,
           orders |-> exec[k].orders, held |-> exec[k].held]
  BY <1>2
<1>4. r \in Executions
  BY <1>1, <1>2, <1>3 DEF Executions, ExecutionRecord
<1>5. exec' = [exec EXCEPT ![k] = r]
  OBVIOUS
<1> HIDE DEF r
<1>6. /\ exec' \in Seq(Executions) /\ cur' = cur /\ DOMAIN exec' = DOMAIN exec
      /\ exec'[k] = r /\ \A e \in DOMAIN exec : e # k => exec'[e] = exec[e]
  BY <1>4, <1>5, Change
<1> QED
  BY <1>3, <1>6

\* What the statement about the order in hand does, and what add_position does with it.
OrderIs(v, H) ==
  /\ CurOnly
  /\ This'.row = This.row /\ This'.held = H
  /\ \A s \in DOMAIN This.orders : This'.orders[s] = IF s = sym THEN v ELSE This.orders[s]

LEMMA OrderApplied ==
  ASSUME Types, cur # 0, sym \in DOMAIN This.orders, NEW v \in OrderStatus,
         exec' = [exec EXCEPT ![cur].orders[sym] = v]
  PROVE  OrderIs(v, This.held)
<1> DEFINE os == [This.orders EXCEPT ![sym] = v]
<1>1. cur \in DOMAIN exec /\ This \in Executions
  BY ExecFacts DEF This
<1>2. This.held \in SUBSET DOMAIN This.orders
  BY <1>1, FieldTypes
<1>3. exec' = [exec EXCEPT ![cur] = [This EXCEPT !.orders = os]]
  BY DEF This
<1> HIDE DEF os
<1>4. [This EXCEPT !.orders = os] = [This EXCEPT !.orders = os, !.held = This.held]
  <2>1. [This EXCEPT !.orders = os]
          = [strategy |-> This.strategy, epoch |-> This.epoch, row |-> This.row,
             orders |-> os, held |-> This.held]
    BY <1>1 DEF Executions, ExecutionRecord
  <2> QED
    BY <1>1, <2>1, OrderFields DEF Executions
<1>5. exec' = [exec EXCEPT ![cur] =
                 [This EXCEPT !.orders = [This.orders EXCEPT ![sym] = v], !.held = This.held]]
  BY <1>3, <1>4 DEF os
<1> QED
  BY <1>2, <1>5, OrderChange DEF OrderIs

LEMMA OrderAccepted ==
  ASSUME Types, cur # 0, sym \in DOMAIN This.orders,
         exec' = [exec EXCEPT ![cur].orders[sym] = "ACCEPTED", ![cur].held = @ \cup {sym}]
  PROVE  OrderIs("ACCEPTED", This.held \cup {sym})
<1> DEFINE os == [This.orders EXCEPT ![sym] = "ACCEPTED"]
           H == This.held \cup {sym}
<1>1. cur \in DOMAIN exec /\ This \in Executions
  BY ExecFacts DEF This
<1>2. H \in SUBSET DOMAIN This.orders
  BY <1>1, FieldTypes
<1>3. exec' = [exec EXCEPT ![cur] = [This EXCEPT !.orders = os, !.held = H]]
  <2> DEFINE f == [exec EXCEPT ![cur].orders[sym] = "ACCEPTED"]
  <2>1. f = [exec EXCEPT ![cur] = [This EXCEPT !.orders = os]]
    BY DEF This
  <2>2. exec' = [f EXCEPT ![cur].held = @ \cup {sym}]
    OBVIOUS
  <2> HIDE DEF f, os
  <2>3. f[cur] = [This EXCEPT !.orders = os]
    BY <1>1, <2>1
  <2>4. [This EXCEPT !.orders = os].held = This.held
    BY <1>1 DEF Executions, ExecutionRecord
  <2>5. exec' = [exec EXCEPT ![cur] = [[This EXCEPT !.orders = os] EXCEPT !.held = H]]
    BY <1>1, <2>1, <2>2, <2>3, <2>4
  <2>6. [[This EXCEPT !.orders = os] EXCEPT !.held = H] = [This EXCEPT !.orders = os, !.held = H]
    BY <1>1 DEF Executions, ExecutionRecord
  <2> QED
    BY <2>5, <2>6
<1>4. "ACCEPTED" \in OrderStatus
  BY DEF OrderStatus
<1> QED
  BY <1>2, <1>3, <1>4, OrderChange DEF OrderIs

\* What is settled stays settled if the executions that are of it are kept.
LEMMA SettledStays ==
  ASSUME NEW m, Settled(m), logged \subseteq logged', DOMAIN exec \subseteq DOMAIN exec',
         \A e \in DOMAIN exec : exec[e].strategy = m =>
           /\ exec'[e].strategy = m /\ exec'[e].orders = exec[e].orders
           /\ exec[e].row \in {"active", "stopped"} => exec'[e].row \in {"active", "stopped"}
  PROVE  Settled(m)'
<1>1. CASE Executed(m)
  <2>1. PICK e \in DOMAIN exec :
          /\ exec[e].strategy = m /\ exec[e].row \in {"active", "stopped"}
          /\ \A s \in DOMAIN exec[e].orders : exec[e].orders[s] \in {"ACCEPTED", "REJECTED"}
    BY <1>1 DEF Executed
  <2>2. /\ e \in DOMAIN exec' /\ exec'[e].strategy = m /\ exec'[e].orders = exec[e].orders
        /\ exec'[e].row \in {"active", "stopped"}
    BY <2>1
  <2> QED
    BY <2>1, <2>2 DEF Settled, Executed
<1>2. CASE ~Executed(m)
  BY <1>2 DEF Settled
<1> QED
  BY <1>1, <1>2

-----------------------------------------------------------------------------
(* The consume loop.  A step of it leaves what it does not hold alone, so  *)
(* that what is settled and the epochs stay.                               *)
\* What the steps of the loop and the statement that a shutdown cuts off have in common.
Works ==
  /\ CurOnly
  /\ cpc \notin Handling => exec' = exec
  /\ UNCHANGED <<position, epoch>> /\ logged \subseteq logged'
  /\ committed' \in {committed, position} /\ (committed' # committed => cpc = "commit")
  /\ cpc' \in Handling => cpc \in Handling
  /\ cpc' = "died" => cpc = "died"
  /\ cpc \in Handling /\ cpc' \in {"poll", "commit"} => \A m \in {This.strategy} : Settled(m)'
  /\ cpc' = "commit" => cpc \in Handling
  /\ cpc # "cancelled"

LEMMA WorksKeeps ==
  ASSUME IInv, Works
  PROVE  SettledInv' /\ EpochInv'
<1>1. Types /\ SettledInv /\ EpochInv /\ CurrentInv
  BY DEF IInv
<1>2. /\ cur \in Nat /\ (cur # 0 => cur \in DOMAIN exec) /\ position \in Nat
      /\ committed \in Nat /\ committed <= position /\ position <= LogLength
  BY <1>1, ExecFacts
<1>3. /\ DOMAIN exec' = DOMAIN exec /\ cur' = cur
      /\ \A e \in DOMAIN exec :
           /\ e # cur => exec'[e] = exec[e]
           /\ exec'[e].strategy = exec[e].strategy /\ exec'[e].epoch = exec[e].epoch
  BY DEF Works, CurOnly
<1>4. EpochInv'
  BY <1>1, <1>3 DEF EpochInv, Works
\* The strategies other than the one in hand stay settled.
<1>5. ASSUME NEW m, Settled(m), cpc \in Handling => m # This.strategy
      PROVE  Settled(m)'
  <2>1. CASE cpc \in Handling
    <3>1. \A e \in DOMAIN exec : exec[e].strategy = m => exec'[e] = exec[e]
      BY <1>3, <1>5, <2>1 DEF This
    <3> QED
      BY <1>3, <1>5, <3>1, SettledStays DEF Works
  <2>2. CASE cpc \notin Handling
    BY <1>5, <2>2, SettledStays DEF Works
  <2> QED
    BY <2>1, <2>2
<1>6. This'.strategy = This.strategy \/ cpc \notin Handling
  BY <1>1, <1>2, <1>3 DEF This, CurrentInv
<1>7. cpc \in Handling => committed' = committed /\ committed < This.strategy
                          /\ \A m \in 1..position : m = This.strategy \/ Settled(m)
  BY <1>1 DEF SettledInv, Works, Handling
<1>8. \A m \in 1..committed : Settled(m)
  BY <1>1 DEF SettledInv
<1>9. cpc \in {"poll", "commit", "died"} => \A m \in 1..position : Settled(m)
  BY <1>1 DEF SettledInv
<1>10. ASSUME NEW m \in 1..committed'
       PROVE  Settled(m)'
  <2>1. CASE committed' = committed
    BY <1>2, <1>5, <1>7, <1>8, <1>10, <2>1
  <2>2. CASE committed' # committed
    BY <1>5, <1>9, <1>10, <2>2 DEF Works, Handling
  <2> QED
    BY <2>1, <2>2
<1>11. ASSUME cpc' \in Handling
       PROVE  /\ committed' < This'.strategy
              /\ \A m \in 1..position' : m = This'.strategy \/ Settled(m)'
  BY <1>5, <1>6, <1>7, <1>11 DEF Works
<1>12. ASSUME cpc' \in {"poll", "commit", "died"}, NEW m \in 1..position'
       PROVE  Settled(m)'
  <2>1. CASE cpc \in Handling
    BY <1>5, <1>7, <1>12, <2>1 DEF Works, Handling
  <2>2. CASE cpc \notin Handling
    <3>1. cpc \in {"poll", "commit", "died"}
      BY <1>1, <2>2 DEF Works, Types, ConsumerPC, Statements, Handling
    <3> QED
      BY <1>5, <1>9, <1>12, <2>2, <3>1 DEF Works
  <2> QED
    BY <2>1, <2>2
<1> QED
  BY <1>4, <1>10, <1>11, <1>12 DEF SettledInv

\* No execution is touched.
LEMMA Untouched ==
  ASSUME Types, exec' = exec
  PROVE  CurOnly /\ OrderIs(This.orders[sym], This.held)
BY DEF Types, CurOnly, OrderIs, cur, This

\* What a statement does that was applied, or was not.
LEMMA CutOff ==
  ASSUME IInv, Apply(cpc) \/ UNCHANGED dbVars, cpc # "cancelled"
  PROVE  /\ CurOnly /\ (cpc \notin Handling => exec' = exec)
         /\ committed' \in {committed, position} /\ (committed' # committed => cpc = "commit")
         /\ cpc \in OnSymbol => \E v \in OrderStatus :
              /\ OrderIs(v, This.held)
              /\ sym \in This.held => v \in Decided
              /\ Apply(cpc) /\ cpc \in DOMAIN OrderAfter => v = OrderAfter[cpc]
         /\ cpc \in {"create", "markError"} =>
              /\ This'.orders = This.orders /\ This'.held = This.held
              /\ This'.row \in {"none", "active", "error"}
              /\ Apply(cpc) /\ cpc = "create" => This'.row = "active"
<1> USE DEF OnSymbol, Handling
<1>0. Types /\ CurrentInv /\ OrdersMatchPositions /\ cpc \in ConsumerPC
  BY DEF IInv, Types
<1>1. ASSUME cpc \in {"order", "refuse", "accept", "reject"}, Apply(cpc)
      PROVE  /\ committed' = committed /\ OrderAfter[cpc] \in OrderStatus
             /\ OrderIs(OrderAfter[cpc], This.held)
  <2>1. /\ committed' = committed /\ OrderAfter[cpc] \in OrderStatus
        /\ exec' = [exec EXCEPT ![cur].orders[sym] = OrderAfter[cpc]]
    BY <1>1 DEF Apply, OrderAfter, OrderStatus
  <2>2. cur # 0 /\ sym \in DOMAIN This.orders
    BY <1>0, <1>1 DEF CurrentInv
  <2> QED
    BY <1>0, <2>1, <2>2, OrderApplied
<1>2. ASSUME cpc \in {"create", "markError"}, Apply(cpc), cpc = "create" \/ This.row # "none"
      PROVE  /\ committed' = committed /\ CurOnly
             /\ This'.orders = This.orders /\ This'.held = This.held
             /\ This'.row = RowAfter[cpc]
  <2>1. committed' = committed /\ exec' = [exec EXCEPT ![cur].row = RowAfter[cpc]]
    BY <1>2 DEF Apply, OrderAfter
  <2>2. cur \in DOMAIN exec
    BY <1>0, <1>2, ExecFacts DEF CurrentInv
  <2>3. RowAfter[cpc] \in {"active", "error"}
    BY <1>2 DEF RowAfter
  <2>4. /\ exec' \in Seq(Executions) /\ cur' = cur /\ DOMAIN exec' = DOMAIN exec
        /\ \A e \in DOMAIN exec : e # cur => exec'[e] = exec[e]
        /\ exec'[cur].row = RowAfter[cpc] /\ exec'[cur].strategy = exec[cur].strategy
        /\ exec'[cur].epoch = exec[cur].epoch
        /\ exec'[cur].orders = exec[cur].orders /\ exec'[cur].held = exec[cur].held
    BY <1>0, <2>1, <2>2, <2>3, RowChange
  <2> QED
    BY <2>1, <2>2, <2>3, <2>4 DEF CurOnly, This
<1>3. ASSUME cpc \in {"check", "track", "commit", "poll", "died"}, Apply(cpc)
      PROVE  /\ exec' = exec
             /\ committed' = IF cpc = "commit" THEN position ELSE committed
  BY <1>3 DEF Apply, OrderAfter
<1>4. CASE ~Apply(cpc)
  <2>1. exec' = exec /\ committed' = committed
    BY <1>4 DEF dbVars
  <2>2. This' = This
    BY <2>1 DEF This, cur
  <2>3. cpc \in OnSymbol /\ sym \in This.held => This.orders[sym] \in Decided
    BY <1>0 DEF CurrentInv, OrdersMatchPositions, This, Decided
  <2>4. cpc \in OnSymbol => This.orders[sym] \in OrderStatus
    BY <1>0, ExecFacts, FieldTypes DEF CurrentInv, This
  <2>5. cpc \in Handling => This.row \in {"none", "active", "error"}
    BY <1>0 DEF CurrentInv
  <2> QED
    BY <1>0, <1>4, <2>1, <2>2, <2>3, <2>4, <2>5, Untouched
<1>5. CASE Apply(cpc)
  <2>1. CASE cpc \in {"order", "refuse", "accept", "reject"}
    <3>1. OrderAfter[cpc] \in Decided \/ sym \notin This.held
      BY <1>0, <2>1 DEF OrderAfter, Decided, CurrentInv, OrdersMatchPositions, This
    <3> QED
      BY <1>1, <1>5, <2>1, <3>1 DEF OrderIs
  <2>2. CASE cpc \in {"create", "markError"}
    <3>1. CASE cpc = "create" \/ This.row # "none"
      BY <1>2, <1>5, <2>2, <3>1 DEF RowAfter
    \* There is no row to mark.
    <3>2. CASE cpc = "markError" /\ This.row = "none"
      <4>1. exec' = exec /\ committed' = committed
        BY <1>5, <3>2 DEF Apply, OrderAfter
      <4>2. This' = This
        BY <4>1 DEF This, cur
      <4> QED
        BY <1>0, <3>2, <4>1, <4>2, Untouched
    <3> QED
      BY <2>2, <3>1, <3>2
  <2>3. CASE cpc \in {"check", "track", "commit", "poll", "died"}
    <3>1. exec' = exec /\ committed' = IF cpc = "commit" THEN position ELSE committed
      BY <1>3, <1>5, <2>3
    <3>2. cpc \in OnSymbol => This.orders[sym] \in OrderStatus
      BY <1>0, ExecFacts, FieldTypes DEF CurrentInv, This
    <3>3. cpc \in OnSymbol /\ sym \in This.held => This.orders[sym] \in Decided
      BY <1>0 DEF CurrentInv, OrdersMatchPositions, This, Decided
    <3> QED
      BY <1>0, <2>3, <3>1, <3>2, <3>3, Untouched DEF OrderAfter
  <2> QED
    BY <1>0, <2>1, <2>2, <2>3 DEF ConsumerPC, Statements
<1> QED
  BY <1>4, <1>5

\* The positions and the orders still agree after a change of the order in hand.
LEMMA OrderMatch ==
  ASSUME IInv, cpc \in OnSymbol, NEW v, NEW H, OrderIs(v, H), active' = active,
         logged \subseteq logged', H = This.held \/ H = This.held \cup {sym},
         sym \in H => v \in Decided,
         v = "ACCEPTED" => sym \in H \/ cpc' \in {"reject", "markError", "cancelled"}
  PROVE  OrdersMatchPositions'
<1>1. /\ OrdersMatchPositions /\ CurrentInv /\ active \subseteq DOMAIN exec
      /\ cur # 0 /\ cur \in active
  BY DEF IInv, CurrentInv, Types, OnSymbol, Handling
<1>2. SUFFICES ASSUME NEW e \in active, NEW s \in DOMAIN exec'[e].orders
               PROVE  /\ s \in exec'[e].held => exec'[e].orders[s] \in Decided
                      /\ exec'[e].orders[s] = "ACCEPTED" /\ s \notin exec'[e].held =>
                           \/ exec'[e].strategy \in logged'
                           \/ e = cur' /\ cpc' \in {"reject", "markError", "cancelled"}
  BY DEF OrdersMatchPositions, Decided
<1>3. CASE e # cur
  <2>1. exec'[e] = exec[e]
    BY <1>1, <1>3 DEF OrderIs, CurOnly
  <2> QED
    BY <1>1, <1>2, <1>3, <2>1 DEF OrdersMatchPositions, Decided
<1>4. CASE e = cur
  <2>1. /\ cur' = cur /\ exec'[e].held = H /\ s \in DOMAIN This.orders
        /\ exec'[e].orders[s] = IF s = sym THEN v ELSE This.orders[s]
    BY <1>1, <1>2, <1>4 DEF OrderIs, CurOnly, This
  <2>2. s # sym => /\ s \in H => This.orders[s] \in Decided
                   /\ This.orders[s] = "ACCEPTED" => s \in H
    BY <1>1, <2>1 DEF CurrentInv, OrdersMatchPositions, This, Decided
  <2> QED
    BY <1>4, <2>1, <2>2
<1> QED
  BY <1>3, <1>4

\* They agree if neither changes and no call that raised is forgotten.
LEMMA StillMatch ==
  ASSUME OrdersMatchPositions, logged \subseteq logged',
         \A e \in active' :
            /\ e \in active /\ exec'[e].orders = exec[e].orders
            /\ exec'[e].held = exec[e].held /\ exec'[e].strategy = exec[e].strategy
            /\ e = cur /\ cpc \in {"reject", "markError", "cancelled"}
                 => \/ exec[e].strategy \in logged'
                    \/ e = cur' /\ cpc' \in {"reject", "markError", "cancelled"}
  PROVE  OrdersMatchPositions'
<1> SUFFICES ASSUME NEW e \in active', NEW s \in DOMAIN exec'[e].orders
             PROVE  /\ s \in exec'[e].held => exec'[e].orders[s] \in Decided
                    /\ exec'[e].orders[s] = "ACCEPTED" /\ s \notin exec'[e].held =>
                         \/ exec'[e].strategy \in logged'
                         \/ e = cur' /\ cpc' \in {"reject", "markError", "cancelled"}
  BY DEF OrdersMatchPositions, Decided
<1>1. /\ e \in active /\ exec'[e].orders = exec[e].orders
      /\ exec'[e].held = exec[e].held /\ exec'[e].strategy = exec[e].strategy
  OBVIOUS
<1> QED
  BY <1>1 DEF OrdersMatchPositions, Decided

\* What the steps of the loop keep whatever they do to the order in hand.
LEMMA LoopKeeps ==
  ASSUME IInv, Works, UNCHANGED shutdownVars, cpc \in Handling \cup {"commit"},
         cpc' \in Handling \cup {"commit", "poll"}, sym' \in Nat,
         \/ active' = active
         \/ cur # 0 /\ active' = active \cup {cur} /\ This'.row = "active",
         tasks' \subseteq active', logged' \subseteq 1..LogLength,
         failures' \in 0..MaxFailures
  PROVE  Types' /\ SettledInv' /\ EpochInv' /\ DownInv' /\ StoppedInv'
<1>0. Types /\ DownInv /\ StoppedInv
  BY DEF IInv
<1>1. SettledInv' /\ EpochInv'
  BY WorksKeeps
<1>2. /\ exec' \in Seq(Executions) /\ DOMAIN exec' = DOMAIN exec /\ cur' = cur
      /\ (cur # 0 => cur \in DOMAIN exec)
      /\ \A e \in DOMAIN exec : exec'[e].row = "stopped" => exec[e].row = "stopped"
  BY <1>0, ExecFacts DEF Works, CurOnly
<1>3. position' = position /\ epoch' = epoch /\ committed' \in {committed, position}
  BY DEF Works
<1>4. Types'
  <2>1. active' \subseteq DOMAIN exec'
    BY <1>0, <1>2 DEF Types
  <2>2. committed' \in 0..position'
    BY <1>0, <1>3 DEF Types
  <2>3. cpc' \in ConsumerPC
    BY DEF Handling, ConsumerPC, Statements
  <2> QED
    BY <1>0, <1>2, <1>3, <2>1, <2>2, <2>3 DEF Types, shutdownVars
<1>5. DownInv'
  BY <1>0 DEF DownInv, shutdownVars, Handling
<1>6. StoppedInv'
  BY <1>0, <1>2 DEF StoppedInv, This
<1> QED
  BY <1>1, <1>4, <1>5, <1>6

\* A call that raises.
LEMMA RaisedStep ==
  ASSUME IInv, Raised
  PROVE  IInv'
<1>0. Types /\ CurrentInv /\ OrdersMatchPositions
  BY DEF IInv
<1>1. /\ cpc \in Handling \cup {"commit"} /\ cpc \in DOMAIN OnError /\ failures < MaxFailures
      /\ Apply(cpc) \/ UNCHANGED dbVars
      /\ cpc' = OnError[cpc] /\ failures' = failures + 1
      /\ sym' = IF cpc' = "reject" THEN sym ELSE 0
      /\ UNCHANGED <<position, active, tasks, shutdownVars, epoch>>
      /\ logged' = IF cpc = "markError" THEN logged \cup {This.strategy} ELSE logged
  BY DEF Raised, LeavesHandler, memory, OnError, Handling
<1>2. /\ cpc' = CASE cpc \in {"accept", "track"} -> "reject"
                  [] cpc \in {"markError", "commit"} -> "poll"
                  [] OTHER -> "markError"
  BY <1>1 DEF OnError
<1>3. /\ CurOnly /\ (cpc \notin Handling => exec' = exec)
      /\ committed' \in {committed, position} /\ (committed' # committed => cpc = "commit")
      /\ cpc \in OnSymbol => \E v \in OrderStatus :
           OrderIs(v, This.held) /\ (sym \in This.held => v \in Decided)
      /\ cpc \in {"create", "markError"} =>
           /\ This'.orders = This.orders /\ This'.held = This.held
           /\ This'.row \in {"none", "active", "error"}
  BY <1>1, CutOff DEF Handling
<1>4. /\ cpc \in Handling => cur # 0 /\ cur \in DOMAIN exec
      /\ cpc \in Handling => This.strategy \in 1..LogLength
      /\ cur' = cur /\ (cur # 0 => This'.strategy = This.strategy)
  <2>1. cpc \in Handling => cur # 0 /\ cur \in DOMAIN exec
    BY <1>0, ExecFacts DEF CurrentInv
  <2>2. cpc \in Handling => This.strategy \in 1..LogLength
    BY <1>0, <2>1, ExecFacts, FieldTypes DEF This
  <2>3. cur' = cur /\ (cur # 0 => This'.strategy = This.strategy)
    BY <1>0, <1>3, ExecFacts DEF CurOnly, This
  <2> QED
    BY <2>1, <2>2, <2>3
<1>5. Works
  <2>1. cpc \in Handling /\ cpc' \in {"poll", "commit"} => \A m \in {This.strategy} : Settled(m)'
    BY <1>1, <1>2 DEF Handling, Settled
  <2> QED
    BY <1>1, <1>2, <1>3, <2>1 DEF Works, Handling
<1>6. Types' /\ SettledInv' /\ EpochInv' /\ DownInv' /\ StoppedInv'
  <2>1. sym' \in Nat /\ failures' \in 0..MaxFailures /\ tasks' \subseteq active'
        /\ logged' \subseteq 1..LogLength
    <3>1. sym' \in Nat /\ tasks' \subseteq active'
      BY <1>0, <1>1 DEF Types
    <3>2. failures' \in 0..MaxFailures
      BY <1>0, <1>1, WorkerAssumption DEF Types
    <3>3. logged' \subseteq 1..LogLength
      BY <1>0, <1>1, <1>4 DEF Types, Handling
    <3> QED
      BY <3>1, <3>2, <3>3
  <2>2. cpc' \in Handling \cup {"commit", "poll"}
    BY <1>2 DEF Handling
  <2> QED
    BY <1>1, <1>5, <2>1, <2>2, LoopKeeps
<1>7. CASE cpc \in OnSymbol
  <2>1. PICK v \in OrderStatus : OrderIs(v, This.held) /\ (sym \in This.held => v \in Decided)
    BY <1>3, <1>7
  <2>2. cpc' \in {"reject", "markError"}
    BY <1>2, <1>7 DEF OnSymbol
  <2>3. OrdersMatchPositions'
    BY <1>1, <1>7, <2>1, <2>2, OrderMatch
  <2>4. CASE cpc' = "markError"
    <3>1. CurrentInv'
      BY <1>0, <1>4, <1>7, <2>1, <2>4 DEF CurrentInv, OrderIs, Handling, OnSymbol
    <3> QED
      BY <1>6, <2>3, <3>1 DEF IInv
  <2>5. CASE cpc' = "reject"
    <3>1. /\ This'.row = "active" /\ cur' \in active' /\ sym' = sym
          /\ sym \in DOMAIN This'.orders /\ DOMAIN This'.orders = DOMAIN This.orders
          /\ This'.held = This.held
      BY <1>0, <1>1, <1>4, <1>7, <2>1, <2>5 DEF CurrentInv, OrderIs, CurOnly, This, Handling,
         OnSymbol
    <3>2. \A s \in DOMAIN This.orders : s # sym => This'.orders[s] = This.orders[s]
      BY <2>1 DEF OrderIs
    <3>3. \A s \in DOMAIN This.orders : s < sym \/ s > sym => s # sym
      BY <1>0, <1>4, <1>7, ExecFacts, FieldTypes DEF This, Handling, OnSymbol, Types
    <3>4. CurrentInv'
      BY <1>0, <1>4, <1>7, <2>5, <3>1, <3>2, <3>3 DEF CurrentInv, Handling, OnSymbol
    <3> QED
      BY <1>6, <2>3, <3>4 DEF IInv
  <2> QED
    BY <2>2, <2>4, <2>5
<1>8. CASE cpc \in {"create", "markError", "commit"}
  <2>1. cpc' \in {"markError", "poll"}
    BY <1>2, <1>8
  <2>2. CurrentInv'
    BY <1>1, <1>2, <1>3, <1>4, <1>8 DEF CurrentInv, Handling, OnSymbol
  <2>3. \A e \in active' :
            /\ e \in active /\ exec'[e].orders = exec[e].orders
            /\ exec'[e].held = exec[e].held /\ exec'[e].strategy = exec[e].strategy
    BY <1>0, <1>1, <1>3, <1>4, <1>8 DEF CurOnly, This, Types, Handling
  <2>4. cpc \in {"reject", "markError", "cancelled"} => This.strategy \in logged'
    BY <1>1, <1>8
  <2>5. OrdersMatchPositions'
    BY <1>0, <1>1, <2>3, <2>4, StillMatch DEF This
  <2> QED
    BY <1>6, <2>2, <2>5 DEF IInv
<1> QED
  BY <1>1, <1>7, <1>8 DEF Handling, OnSymbol

\* The calls that return.  First the ones about the order in hand.
\* The loop over the symbols goes on, or is done and the strategy executed.
LEMMA SymbolDone ==
  ASSUME IInv, cpc \in {"refuse", "track", "reject"}, Apply(cpc), NextSymbol, epoch' = epoch
  PROVE  Works /\ CurrentInv' /\ OrdersMatchPositions' /\ sym' \in Nat
         /\ cpc' \in {"order", "commit"} /\ active' = active /\ tasks' \subseteq active'
<1>0. Types /\ CurrentInv /\ OrdersMatchPositions
  BY DEF IInv
<1>1. /\ UNCHANGED <<position, active, logged>>
      /\ IF sym + 1 \in DOMAIN This.orders
           THEN cpc' = "order" /\ sym' = sym + 1 /\ UNCHANGED tasks
           ELSE cpc' = "commit" /\ sym' = 0 /\ tasks' = tasks \cup {cur}
  BY DEF NextSymbol, GoOn
<1>2. /\ cur # 0 /\ cur \in active /\ cur \in DOMAIN exec /\ This.row = "active"
      /\ sym \in DOMAIN This.orders
      /\ DOMAIN This.orders = 1..Len(This.orders) /\ Len(This.orders) \in Nat
      /\ \A s \in DOMAIN This.orders :
            /\ s < sym => This.orders[s] \in Decided
            /\ s > sym => This.orders[s] = "none"
            /\ s # sym /\ This.orders[s] = "ACCEPTED" => s \in This.held
  BY <1>0, ExecFacts, FieldTypes DEF CurrentInv, Handling, OnSymbol, This
<1>3. PICK v \in Decided :
         OrderIs(v, This.held) /\ (v = "ACCEPTED" => sym \in This.held)
  <2>1. PICK v \in OrderStatus :
           /\ OrderIs(v, This.held)
           /\ sym \in This.held => v \in Decided
           /\ cpc \in DOMAIN OrderAfter => v = OrderAfter[cpc]
    BY CutOff DEF OnSymbol
  <2>2. CASE cpc \in {"refuse", "reject"}
    BY <2>1, <2>2 DEF OrderAfter, Decided
  <2>3. CASE cpc = "track"
    <3>1. exec' = exec
      BY <2>3 DEF Apply, OrderAfter
    <3>2. OrderIs("ACCEPTED", This.held) /\ sym \in This.held
      BY <1>0, <2>3, <3>1, Untouched DEF CurrentInv
    <3> QED
      BY <3>2 DEF Decided
  <2> QED
    BY <2>2, <2>3
<1>4. /\ CurOnly /\ cur' = cur /\ This'.row = This.row /\ This'.held = This.held
      /\ DOMAIN This'.orders = DOMAIN This.orders
      /\ This'.strategy = This.strategy /\ This'.orders[sym] = v
      /\ \A s \in DOMAIN This.orders : s # sym => This'.orders[s] = This.orders[s]
  BY <1>2, <1>3 DEF OrderIs, CurOnly, This
<1>5. OrdersMatchPositions'
  BY <1>1, <1>3, OrderMatch DEF OnSymbol
<1>6. sym \in Nat /\ cur \in DOMAIN exec' /\ DOMAIN exec' = DOMAIN exec
  BY <1>0, <1>2, <1>4 DEF Types, CurOnly
<1>a. /\ committed' \in {committed, position} /\ (committed' # committed => cpc = "commit")
      /\ cpc \in Handling
  BY CutOff DEF Handling
<1>7. CASE sym + 1 \in DOMAIN This.orders
  <2>1. \A s \in DOMAIN This.orders :
            /\ s < sym + 1 => This'.orders[s] \in Decided
            /\ s > sym + 1 \/ s = sym + 1 => This'.orders[s] = "none"
            /\ This'.orders[s] = "ACCEPTED" => s \in This.held
    BY <1>2, <1>3, <1>4, <1>6
  <2>2. CurrentInv'
    BY <1>1, <1>2, <1>4, <1>7, <2>1 DEF CurrentInv, Handling, OnSymbol
  <2> QED
    BY <1>0, <1>1, <1>2, <1>4, <1>5, <1>6, <1>7, <1>a, <2>2
    DEF Works, Handling, Types
<1>8. CASE sym + 1 \notin DOMAIN This.orders
  <2>1. \A s \in DOMAIN This.orders : This'.orders[s] \in Decided
    BY <1>2, <1>3, <1>4, <1>6, <1>8
  <2>2. \A m \in {This.strategy} : Settled(m)'
    BY <1>2, <1>4, <1>6, <2>1 DEF Settled, Executed, This, Decided
  <2>3. CurrentInv'
    BY <1>1, <1>8 DEF CurrentInv, Handling, OnSymbol
  <2> QED
    BY <1>0, <1>1, <1>2, <1>4, <1>5, <1>6, <1>8, <1>a, <2>2, <2>3
    DEF Works, Handling, Types
<1> QED
  BY <1>7, <1>8

\* The row is there: the execution becomes active, and its orders begin.
LEMMA CreatedStep ==
  ASSUME IInv, Created, epoch' = epoch
  PROVE  /\ Works /\ CurrentInv' /\ OrdersMatchPositions' /\ sym' \in Nat
         /\ cpc' \in {"order", "commit"} /\ cur # 0 /\ active' = active \cup {cur}
         /\ This'.row = "active" /\ tasks' \subseteq active'
<1>0. Types /\ CurrentInv /\ OrdersMatchPositions
  BY DEF IInv
<1>1. /\ cpc = "create" /\ Apply(cpc) /\ active' = active \cup {cur}
      /\ UNCHANGED <<position, logged>>
      /\ IF 1 \in DOMAIN This.orders
           THEN cpc' = "order" /\ sym' = 1 /\ UNCHANGED tasks
           ELSE cpc' = "commit" /\ sym' = 0 /\ tasks' = tasks \cup {cur}
  BY DEF Created, GoOn
<1>2. /\ cur # 0 /\ cur \in DOMAIN exec /\ This.held = {}
      /\ \A s \in DOMAIN This.orders : This.orders[s] = "none"
      /\ DOMAIN This.orders = 1..Len(This.orders) /\ Len(This.orders) \in Nat
  BY <1>0, <1>1, ExecFacts, FieldTypes DEF CurrentInv, Handling, This
<1>3. /\ CurOnly /\ committed' = committed
      /\ This'.orders = This.orders /\ This'.held = This.held /\ This'.row = "active"
  <2>1. /\ CurOnly /\ committed' \in {committed, position}
        /\ (committed' # committed => cpc = "commit")
        /\ This'.orders = This.orders /\ This'.held = This.held /\ This'.row = "active"
    BY <1>1, CutOff
  <2> QED
    BY <1>1, <2>1
<1>4. cur' = cur /\ DOMAIN exec' = DOMAIN exec /\ This'.strategy = This.strategy
  BY <1>2, <1>3 DEF CurOnly, This
<1>5. OrdersMatchPositions'
  <2> SUFFICES ASSUME NEW e \in active', NEW s \in DOMAIN exec'[e].orders
               PROVE  /\ s \in exec'[e].held => exec'[e].orders[s] \in Decided
                      /\ exec'[e].orders[s] = "ACCEPTED" /\ s \notin exec'[e].held =>
                           \/ exec'[e].strategy \in logged'
                           \/ e = cur' /\ cpc' \in {"reject", "markError", "cancelled"}
    BY DEF OrdersMatchPositions, Decided
  <2>1. CASE e = cur
    BY <1>2, <1>3, <1>4, <2>1 DEF This
  <2>2. CASE e # cur
    <3>1. e \in active /\ exec'[e] = exec[e]
      BY <1>0, <1>1, <1>3, <2>2 DEF Types, CurOnly
    <3> QED
      BY <1>0, <1>1, <2>2, <3>1 DEF OrdersMatchPositions, Decided
  <2> QED
    BY <2>1, <2>2
<1>7. cpc' = "commit" => \A m \in {This.strategy} : Settled(m)'
  BY <1>1, <1>2, <1>3, <1>4 DEF Settled, Executed, This
<1>8. Works
  BY <1>1, <1>3, <1>7 DEF Works, Handling
<1>9. CurrentInv'
  BY <1>1, <1>2, <1>3, <1>4 DEF CurrentInv, Handling, OnSymbol
<1> QED
  BY <1>0, <1>1, <1>2, <1>3, <1>5, <1>8, <1>9 DEF Types

LEMMA AnsweredStep ==
  ASSUME IInv, Answered
  PROVE  IInv'
<1>0. Types /\ CurrentInv /\ OrdersMatchPositions
  BY DEF IInv
<1>1. UNCHANGED <<shutdownVars, failures, epoch>> /\ failures' \in 0..MaxFailures
  BY <1>0 DEF Answered, Types
<1> SUFFICES
      /\ Works /\ CurrentInv' /\ OrdersMatchPositions' /\ sym' \in Nat
      /\ cpc \in Handling \cup {"commit"} /\ cpc' \in Handling \cup {"commit", "poll"}
      /\ \/ active' = active
         \/ cur # 0 /\ active' = active \cup {cur} /\ This'.row = "active"
      /\ tasks' \subseteq active' /\ logged' \subseteq 1..LogLength
  BY <1>1, LoopKeeps DEF IInv
<1>2. CASE Created
  <2>1. cpc = "create" /\ logged' = logged
    BY <1>2 DEF Created
  <2> QED
    BY <1>0, <1>1, <1>2, <2>1, CreatedStep DEF Handling, Types
<1>3. CASE Refused \/ Tracked \/ Rejected
  <2>1. cpc \in {"refuse", "track", "reject"} /\ Apply(cpc) /\ NextSymbol /\ logged' = logged
    BY <1>3 DEF Refused, Tracked, Rejected, NextSymbol
  <2> QED
    BY <1>0, <1>1, <2>1, SymbolDone DEF Handling, Types
<1>4. CASE Ordered \/ Accepted
  <2>1. /\ cpc \in {"order", "accept"} /\ cur # 0 /\ cur \in active /\ cur \in DOMAIN exec
        /\ sym \in DOMAIN This.orders /\ This.row = "active"
        /\ cpc' = (IF cpc = "order" THEN "check" ELSE "track") /\ sym' = sym
        /\ UNCHANGED <<position, committed, active, tasks, logged>>
    BY <1>0, <1>4, ExecFacts
    DEF Ordered, Accepted, Apply, memory, CurrentInv, OnSymbol, Handling
  <2>2. PICK v \in {"PENDING", "ACCEPTED"}, H \in {This.held, This.held \cup {sym}} :
          /\ OrderIs(v, H) /\ (sym \in H <=> v = "ACCEPTED")
          /\ v = (IF cpc = "order" THEN "PENDING" ELSE "ACCEPTED")
    <3>1. CASE Ordered
      <4>1. cpc = "order" /\ exec' = [exec EXCEPT ![cur].orders[sym] = "PENDING"]
        BY <3>1 DEF Ordered, Apply, OrderAfter
      <4>2. OrderIs("PENDING", This.held)
        BY <1>0, <2>1, <4>1, OrderApplied DEF OrderStatus
      <4>3. sym \notin This.held
        BY <1>0, <2>1, <4>1 DEF CurrentInv, OrdersMatchPositions, This
      <4> QED
        BY <4>1, <4>2, <4>3
    <3>2. CASE Accepted
      <4>1. OrderIs("ACCEPTED", This.held \cup {sym}) /\ cpc = "accept"
        BY <1>0, <2>1, <3>2, OrderAccepted DEF Accepted
      <4> QED
        BY <4>1
    <3> QED
      BY <1>4, <3>1, <3>2
  <2>3. OrdersMatchPositions'
    <3>1. cpc \in OnSymbol /\ logged \subseteq logged' /\ active' = active
      BY <2>1 DEF OnSymbol
    <3>2. H = This.held \/ H = This.held \cup {sym}
      BY <2>2
    <3>3. (sym \in H => v \in Decided) /\ (v = "ACCEPTED" => sym \in H)
      BY <2>2 DEF Decided
    <3> QED
      BY <2>2, <3>1, <3>2, <3>3, OrderMatch
  <2>4. /\ CurOnly /\ cur' = cur /\ This'.row = This.row
        /\ DOMAIN This'.orders = DOMAIN This.orders
        /\ This'.orders[sym] = v /\ This'.held = H
        /\ \A s \in DOMAIN This.orders : s # sym => This'.orders[s] = This.orders[s]
    BY <2>1, <2>2 DEF OrderIs, CurOnly, This
  <2>5. Works
    BY <1>1, <2>1, <2>4 DEF Works, Handling
  <2>6. \A s \in DOMAIN This.orders : s < sym \/ s > sym => s # sym
    BY <1>0, <2>1, ExecFacts, FieldTypes DEF This, Types
  <2>7. \A s \in DOMAIN This.orders :
            /\ s < sym => This'.orders[s] \in Decided
            /\ s > sym => This'.orders[s] = "none"
            /\ s # sym /\ This'.orders[s] = "ACCEPTED" => s \in H
    BY <1>0, <2>1, <2>2, <2>4, <2>6 DEF CurrentInv, OnSymbol
  <2>8. CurrentInv'
    BY <2>1, <2>2, <2>4, <2>7 DEF CurrentInv, Handling, OnSymbol
  <2> QED
    BY <1>0, <2>1, <2>3, <2>5, <2>8 DEF Types, Handling
<1>5. CASE Checked
  <2>1. /\ cpc = "check" /\ cpc' \in {"accept", "refuse"}
        /\ UNCHANGED <<committed, exec, active, tasks, sym, position, logged>>
    BY <1>5 DEF Checked, dbVars, memory
  <2>2. Works
    BY <1>0, <1>1, <2>1, Untouched DEF Works, Handling
  <2>3. CurrentInv'
    BY <1>0, <2>1 DEF CurrentInv, cur, This, Handling, OnSymbol
  <2>4. OrdersMatchPositions'
    BY <1>0, <2>1, StillMatch
  <2> QED
    BY <1>0, <2>1, <2>2, <2>3, <2>4 DEF Types, Handling
<1>6. CASE Marked
  <2>1. /\ cpc = "markError" /\ Apply(cpc) /\ cpc' = "poll" /\ sym' = 0
        /\ logged' = logged \cup {This.strategy} /\ UNCHANGED <<position, active, tasks>>
    BY <1>6 DEF Marked, LeavesHandler, memory
  <2>2. /\ CurOnly /\ committed' \in {committed, position}
        /\ (committed' # committed => cpc = "commit")
        /\ This'.orders = This.orders /\ This'.held = This.held
    BY <2>1, CutOff
  <2>3. cur # 0 /\ cur \in DOMAIN exec
    BY <1>0, <2>1, ExecFacts DEF CurrentInv, Handling
  <2>4. This.strategy \in 1..LogLength
    BY <1>0, <2>3, ExecFacts, FieldTypes DEF This
  <2>5. Works
    BY <1>1, <2>1, <2>2 DEF Works, Handling, Settled
  <2>6. \A e \in DOMAIN exec :
            /\ exec'[e].orders = exec[e].orders /\ exec'[e].held = exec[e].held
            /\ exec'[e].strategy = exec[e].strategy
    BY <2>2 DEF CurOnly, This
  <2>7. OrdersMatchPositions'
    BY <1>0, <2>1, <2>6, StillMatch DEF Types, This
  <2>8. CurrentInv'
    BY <2>1 DEF CurrentInv, Handling, OnSymbol
  <2> QED
    BY <1>0, <2>1, <2>4, <2>5, <2>7, <2>8 DEF Types, Handling
<1>7. CASE Committed
  <2>1. /\ cpc = "commit" /\ Apply(cpc) /\ cpc' = "poll"
        /\ UNCHANGED <<active, tasks, sym, position, logged>>
    BY <1>7 DEF Committed, memory
  <2>2. exec' = exec /\ committed' = position
    BY <2>1 DEF Apply, OrderAfter
  <2>3. Works
    BY <1>0, <1>1, <2>1, <2>2, Untouched DEF Works, Handling
  <2>4. OrdersMatchPositions'
    BY <1>0, <2>1, <2>2, StillMatch
  <2>5. CurrentInv'
    BY <2>1 DEF CurrentInv, Handling, OnSymbol
  <2> QED
    BY <1>0, <2>1, <2>3, <2>4, <2>5 DEF Types, Handling
<1> QED
  BY <1>2, <1>3, <1>4, <1>5, <1>6, <1>7 DEF Answered

LEMMA ConsumerStepKeeps ==
  ASSUME IInv, ConsumerStep
  PROVE  IInv'
BY AnsweredStep, RaisedStep DEF ConsumerStep

\* A fresh execution is appended.
LEMMA Appended ==
  ASSUME Types, NEW m \in 1..LogLength, exec' = Append(exec, NewExecution(m))
  PROVE  /\ exec' \in Seq(Executions) /\ cur' = cur + 1 /\ cur \in Nat
         /\ DOMAIN exec' = 1..(cur + 1) /\ DOMAIN exec = 1..cur
         /\ \A e \in DOMAIN exec : exec'[e] = exec[e]
         /\ exec'[cur + 1] = NewExecution(m)
<1>1. NewExecution(m) \in Executions
  <2> DEFINE os == [s \in 1..Symbols[m] |-> "none"]
  <2>1. Symbols[m] \in Nat
    BY WorkerAssumption
  <2>2. os \in [1..Symbols[m] -> OrderStatus]
    BY DEF OrderStatus
  <2>3. os \in Seq(OrderStatus) /\ Len(os) = Symbols[m]
    <3>1. os \in Seq(OrderStatus)
      BY <2>1, <2>2, SeqDef
    <3>2. DOMAIN os = 1..Symbols[m] /\ DOMAIN os = 1..Len(os) /\ Len(os) \in Nat
      BY <3>1, LenProperties
    <3> QED
      BY <2>1, <3>1, <3>2
  <2> HIDE DEF os
  <2>4. [strategy |-> m, epoch |-> epoch, row |-> "none", orders |-> os, held |-> {}]
          \in Executions
    BY <2>3 DEF Types, Executions, ExecutionRecord
  <2> QED
    BY <2>4 DEF NewExecution, os
<1>2. exec \in Seq(Executions)
  BY DEF Types
<1> HIDE DEF NewExecution
<1>3. /\ exec' \in Seq(Executions) /\ Len(exec') = Len(exec) + 1
      /\ \A e \in 1..Len(exec) : exec'[e] = exec[e]
      /\ exec'[Len(exec) + 1] = NewExecution(m)
  BY <1>1, <1>2, AppendProperties
<1>4. DOMAIN exec' = 1..Len(exec')
  BY <1>3, LenProperties
<1> QED
  BY <1>3, <1>4, ExecFacts DEF cur

LEMMA PollStep ==
  ASSUME IInv, Poll
  PROVE  IInv'
<1>0. /\ Types /\ SettledInv /\ EpochInv /\ OrdersMatchPositions /\ StoppedInv
      /\ cpc = "poll" /\ down = "no"
      /\ \A m \in 1..position : Settled(m)
  BY DEF IInv, Poll, SettledInv, DownInv, Types, DownPC
<1>1. /\ position < LogLength /\ position \in Nat /\ position + 1 \in 1..LogLength
      /\ LogLength \in Nat /\ cur \in Nat /\ DOMAIN exec = 1..cur
      /\ committed \in Nat /\ committed <= position
  BY <1>0, ExecFacts DEF Poll
<1>2. UNCHANGED <<active, tasks, sym, down, toStop, cut, failures, epoch>>
  BY DEF Poll, memory, shutdownVars
<1>3. CASE Deliver
  <2>1. /\ position' = position + 1 /\ cpc' = "create"
        /\ exec' = Append(exec, NewExecution(position + 1))
        /\ UNCHANGED <<committed, logged>>
    BY <1>3 DEF Deliver
  <2>2. /\ exec' \in Seq(Executions) /\ cur' = cur + 1
        /\ DOMAIN exec' = 1..(cur + 1) /\ \A e \in DOMAIN exec : exec'[e] = exec[e]
        /\ exec'[cur + 1] = NewExecution(position + 1)
    BY <1>0, <1>1, <2>1, Appended
  <2>3. This' = NewExecution(position + 1) /\ This'.strategy = position + 1
        /\ This'.epoch = epoch /\ This'.row = "none" /\ This'.held = {}
        /\ \A s \in DOMAIN This'.orders : This'.orders[s] = "none"
    BY <2>2 DEF This, NewExecution
  <2>4. Types'
    <3>1. DOMAIN exec \subseteq DOMAIN exec'
      BY <1>1, <2>2
    <3>2. committed' \in 0..position' /\ position' \in 0..LogLength
      BY <1>1, <2>1
    <3> QED
      BY <1>0, <1>2, <2>1, <2>2, <3>1, <3>2 DEF Types, ConsumerPC, Statements
  <2>5. CurrentInv'
    BY <1>1, <2>1, <2>2, <2>3 DEF CurrentInv, Handling, OnSymbol
  <2>6. ASSUME NEW m \in 1..position
        PROVE  Settled(m)'
    <3>1. DOMAIN exec \subseteq DOMAIN exec'
      BY <1>1, <2>2
    <3> QED
      BY <1>0, <2>1, <2>2, <3>1, SettledStays
  <2>7. SettledInv'
    BY <1>1, <2>1, <2>3, <2>6 DEF SettledInv, Handling
  <2>8. EpochInv'
    <3>1. \A e \in DOMAIN exec : exec[e].epoch \in Nat /\ exec[e].strategy \in Nat
      BY <1>0, ExecFacts, FieldTypes, WorkerAssumption
    <3>2. epoch \in Nat
      BY <1>0, ExecFacts
    <3>3. \A e \in DOMAIN exec' :
            exec'[e].epoch <= epoch /\ (exec'[e].epoch = epoch => exec'[e].strategy <= position + 1)
      <4> SUFFICES ASSUME NEW e \in DOMAIN exec'
                   PROVE  /\ exec'[e].epoch <= epoch
                          /\ exec'[e].epoch = epoch => exec'[e].strategy <= position + 1
        OBVIOUS
      <4>1. CASE e = cur + 1
        BY <1>1, <2>2, <2>3, <3>2, <4>1 DEF This
      <4>2. CASE e \in DOMAIN exec
        BY <1>0, <1>1, <2>2, <3>1, <3>2, <4>2 DEF EpochInv
      <4> QED
        BY <1>1, <2>2, <4>1, <4>2
    <3>4. ASSUME NEW d \in DOMAIN exec', NEW e \in DOMAIN exec', d < e,
                 exec'[d].strategy = exec'[e].strategy
          PROVE  exec'[d].epoch < exec'[e].epoch
      <4>1. d \in DOMAIN exec
        BY <1>1, <2>2, <3>4
      <4>2. CASE e = cur + 1
        <5>1. exec[d].strategy = position + 1 /\ exec'[e].epoch = epoch
          BY <2>2, <2>3, <3>4, <4>1, <4>2 DEF This
        <5>2. exec[d].epoch # epoch /\ exec[d].epoch <= epoch
          BY <1>0, <1>1, <4>1, <5>1 DEF EpochInv
        <5> QED
          BY <2>2, <3>1, <3>2, <4>1, <5>1, <5>2
      <4>3. CASE e \in DOMAIN exec
        BY <1>0, <2>2, <3>4, <4>1, <4>3 DEF EpochInv
      <4> QED
        BY <1>1, <2>2, <4>2, <4>3
    <3> QED
      BY <1>2, <2>1, <3>3, <3>4 DEF EpochInv
  <2>9. OrdersMatchPositions'
    BY <1>0, <1>2, <2>1, <2>2, StillMatch DEF Types
  <2>10. DownInv'
    BY <1>0, <1>2, <2>1 DEF DownInv
  <2>11. StoppedInv'
    BY <1>0, <1>1, <1>2, <2>2, <2>3 DEF StoppedInv, This
  <2> QED
    BY <2>4, <2>5, <2>7, <2>8, <2>9, <2>10, <2>11 DEF IInv
<1>4. CASE ~Deliver
  <2>1. /\ exec' = exec /\ committed' = committed
        /\ \/ /\ Kind[position + 1] = "missing" /\ position' = position + 1
              /\ cpc' = "commit" /\ logged' = logged
           \/ /\ position' = position + 1 /\ logged' = logged \cup {position + 1}
              /\ cpc' = "poll"
           \/ position' = position /\ logged' = logged /\ cpc' = "died"
    BY <1>0, <1>4 DEF Poll, dbVars
  <2>2. Types'
    <3>1. committed' \in 0..position' /\ position' \in 0..LogLength
      BY <1>1, <2>1
    <3>2. logged' \subseteq 1..LogLength
      BY <1>0, <1>1, <2>1 DEF Types
    <3> QED
      BY <1>0, <1>2, <2>1, <3>1, <3>2 DEF Types, ConsumerPC, Statements
  <2>3. \A m \in 1..position : Settled(m)'
    BY <1>0, <2>1, SettledStays
  <2>5. \A m \in 1..position' : Settled(m)'
    <3>1. \A m \in {position + 1} : position' = position + 1 => Settled(m)'
      BY <1>1, <2>1 DEF Settled
    <3> QED
      BY <1>1, <2>1, <2>3, <3>1
  <2>6. SettledInv' /\ CurrentInv'
    BY <1>1, <2>1, <2>5 DEF SettledInv, CurrentInv, Handling, OnSymbol
  <2>7. EpochInv'
    <3>1. \A e \in DOMAIN exec : exec[e].strategy \in Nat
      BY <1>0, ExecFacts, FieldTypes, WorkerAssumption
    <3> QED
      BY <1>0, <1>1, <1>2, <2>1, <3>1 DEF EpochInv
  <2>8. OrdersMatchPositions'
    BY <1>0, <1>2, <2>1, StillMatch
  <2>9. DownInv' /\ StoppedInv'
    BY <1>0, <1>2, <2>1 DEF DownInv, StoppedInv
  <2> QED
    BY <2>2, <2>6, <2>7, <2>8, <2>9 DEF IInv
<1> QED
  BY <1>3, <1>4

-----------------------------------------------------------------------------
(* Shutdown, restarts and rebalances.                                      *)
LEMMA SignalStep ==
  ASSUME IInv, Signal
  PROVE  IInv'
<1>0. /\ Types /\ CurrentInv /\ OrdersMatchPositions /\ StoppedInv /\ DownInv
      /\ down = "no" /\ cpc # "cancelled"
      /\ UNCHANGED <<position, active, tasks, toStop, cut, failures, epoch, logged>>
  BY DEF IInv, Signal, DownInv, memory
<1>1. CASE cpc = "died"
  <2>1. down' = "raised" /\ UNCHANGED <<committed, exec, cpc, sym>>
    BY <1>1 DEF Signal, dbVars
  <2>2. Types' /\ DownInv'
    BY <1>0, <1>1, <2>1 DEF Types, DownPC, DownInv
  <2>3. CurrentInv' /\ SettledInv' /\ EpochInv' /\ OrdersMatchPositions' /\ StoppedInv'
    BY <1>0, <2>1
    DEF IInv, CurrentInv, SettledInv, EpochInv, OrdersMatchPositions, StoppedInv, cur, This,
        Settled, Executed
  <2> QED
    BY <2>2, <2>3 DEF IInv
<1>2. CASE cpc # "died"
  <2>1. /\ Apply(cpc) \/ UNCHANGED dbVars
        /\ cpc' = "cancelled" /\ sym' = 0 /\ down' = "kafka"
    BY <1>2 DEF Signal, StopConsumer
  <2>2. /\ CurOnly /\ (cpc \notin Handling => exec' = exec)
        /\ committed' \in {committed, position} /\ (committed' # committed => cpc = "commit")
        /\ cpc \in OnSymbol => \E v \in OrderStatus :
             OrderIs(v, This.held) /\ (sym \in This.held => v \in Decided)
        /\ cpc \in {"create", "markError"} =>
             This'.orders = This.orders /\ This'.held = This.held
    BY <1>0, <2>1, CutOff
  <2>3. Works
    BY <1>0, <2>1, <2>2 DEF Works, Handling
  <2>4. SettledInv' /\ EpochInv'
    BY <2>3, WorksKeeps
  <2>5. Types'
    <3>1. committed' \in 0..position'
      BY <1>0, <2>2 DEF Types
    <3>2. exec' \in Seq(Executions) /\ DOMAIN exec' = DOMAIN exec
      BY <2>2 DEF CurOnly
    <3> QED
      BY <1>0, <2>1, <3>1, <3>2 DEF Types, ConsumerPC, DownPC
  <2>6. CurrentInv' /\ DownInv'
    BY <1>0, <2>1 DEF CurrentInv, DownInv, Handling, OnSymbol
  <2>7. StoppedInv'
    BY <1>0, <2>2 DEF StoppedInv, CurOnly
  <2>8. OrdersMatchPositions'
    <3>1. CASE cpc \in OnSymbol
      <4>1. PICK v \in OrderStatus :
              OrderIs(v, This.held) /\ (sym \in This.held => v \in Decided)
        BY <2>2, <3>1
      <4> QED
        BY <1>0, <2>1, <3>1, <4>1, OrderMatch
    <3>2. CASE cpc \notin OnSymbol
      <4>1. \A e \in DOMAIN exec :
              /\ exec'[e].orders = exec[e].orders /\ exec'[e].held = exec[e].held
              /\ exec'[e].strategy = exec[e].strategy
        BY <2>2, <3>2 DEF CurOnly, This, Handling, OnSymbol
      <4>2. cur' = cur
        BY <2>2 DEF CurOnly
      <4> QED
        BY <1>0, <2>1, <4>1, <4>2, StillMatch DEF Types
    <3> QED
      BY <3>1, <3>2
  <2> QED
    BY <2>4, <2>5, <2>6, <2>7, <2>8 DEF IInv
<1> QED
  BY <1>1, <1>2

\* MarkStopped marks one of the executions, and the order of none is touched.
LEMMA Marks ==
  ASSUME Types, exec' \in {exec, [exec EXCEPT ![Stopping].row = "stopped"]}
  PROVE  /\ exec' \in Seq(Executions) /\ cur' = cur /\ DOMAIN exec' = DOMAIN exec
         /\ \A e \in DOMAIN exec :
              /\ exec'[e].strategy = exec[e].strategy /\ exec'[e].epoch = exec[e].epoch
              /\ exec'[e].orders = exec[e].orders /\ exec'[e].held = exec[e].held
              /\ \/ exec'[e].row = exec[e].row
                 \/ exec'[e].row = "stopped" /\ e = Stopping
<1>1. CASE exec' = exec
  BY <1>1 DEF Types, cur
<1>2. CASE exec' # exec
  <2>1. exec' = [exec EXCEPT ![Stopping].row = "stopped"]
    BY <1>2
  <2>2. Stopping \in DOMAIN exec
    BY <1>2, <2>1, ExecFacts
  <2> QED
    BY <2>1, <2>2, RowChange
<1> QED
  BY <1>1, <1>2

LEMMA ShutdownKeeps ==
  ASSUME IInv, ShutdownStep
  PROVE  IInv'
<1>0. /\ Types /\ SettledInv /\ EpochInv /\ OrdersMatchPositions /\ StoppedInv /\ DownInv
      /\ UNCHANGED <<position, cpc, sym, cut, epoch, logged>>
      /\ cpc = "cancelled"
  <2>1. down \in {"kafka", "task", "monitor", "mark", "close"}
    BY DEF ShutdownStep, StopTask, StopMonitor, MarkStopped
  <2> QED
    BY <2>1 DEF IInv, ShutdownStep, DownInv
\* What each of the steps does.
<1> DEFINE Moves == /\ committed' = committed /\ tasks' \subseteq active' /\ active' \subseteq active
                    /\ exec' \in {exec, [exec EXCEPT ![Stopping].row = "stopped"]}
                    /\ exec' = exec \/ Stopping \notin active
                    /\ toStop' \subseteq DOMAIN exec /\ failures' \in 0..MaxFailures
                    /\ down' \in DownPC \ {"no", "raised"}
                    /\ down' = "task" => active' \subseteq toStop'
                    /\ down' = "monitor" => active' \subseteq toStop' /\ Stopping' \notin tasks'
                    /\ down' = "mark" => active' \subseteq toStop' \ {Stopping'}
                    /\ down' \in {"close", "done"} => active' = {}
<1>1. Moves
  <2>1. ASSUME down = "kafka", ListExecutions, UNCHANGED <<dbVars, memory, failures>>
        PROVE  Moves
    BY <1>0, <2>1 DEF ListExecutions, Types, dbVars, memory, DownPC
  <2>2. CASE StopTask
    BY <1>0, <2>2 DEF StopTask, Types, dbVars, DownInv, DownPC, Stopping
  <2>3. CASE StopMonitor
    <3>1. exec' = exec
      BY <2>3 DEF StopMonitor, ClosePositions
    <3> QED
      BY <1>0, <2>3, <3>1 DEF StopMonitor, Types, DownInv, DownPC, Stopping
  <2>4. CASE MarkStopped
    <3>1. failures' \in 0..MaxFailures
      BY <1>0, <2>4, WorkerAssumption DEF MarkStopped, Types
    <3>2. active \subseteq toStop' /\ Stopping \notin active
      BY <1>0, <2>4 DEF MarkStopped, DownInv
    <3> QED
      BY <1>0, <2>4, <3>1, <3>2 DEF MarkStopped, Types, memory, DownPC
  <2>5. ASSUME down = "close", down' = "done", UNCHANGED <<dbVars, memory, toStop, failures>>
        PROVE  Moves
    BY <1>0, <2>5 DEF Types, dbVars, memory, DownInv, DownPC
  <2> QED
    BY <2>1, <2>2, <2>3, <2>4, <2>5 DEF ShutdownStep
<1>2. /\ exec' \in Seq(Executions) /\ cur' = cur /\ DOMAIN exec' = DOMAIN exec
      /\ \A e \in DOMAIN exec :
           /\ exec'[e].strategy = exec[e].strategy /\ exec'[e].epoch = exec[e].epoch
           /\ exec'[e].orders = exec[e].orders /\ exec'[e].held = exec[e].held
           /\ \/ exec'[e].row = exec[e].row
              \/ exec'[e].row = "stopped" /\ e = Stopping
  BY <1>0, <1>1, Marks
<1>3. Types'
  BY <1>0, <1>1, <1>2 DEF Types
<1>4. CurrentInv' /\ DownInv'
  BY <1>0, <1>1 DEF CurrentInv, DownInv, Handling, OnSymbol
<1>5. SettledInv'
  <2>1. ASSUME NEW m \in 1..committed
        PROVE  Settled(m)'
    <3>1. Settled(m)
      BY <1>0, <2>1 DEF SettledInv
    <3> QED
      BY <1>0, <1>2, <3>1, SettledStays
  <2> QED
    BY <1>0, <1>1, <2>1 DEF SettledInv, Handling
<1>6. EpochInv'
  BY <1>0, <1>2 DEF EpochInv
<1>7. OrdersMatchPositions'
  BY <1>0, <1>1, <1>2, StillMatch DEF Types
<1>8. StoppedInv'
  BY <1>0, <1>1, <1>2 DEF StoppedInv
<1> QED
  BY <1>3, <1>4, <1>5, <1>6, <1>7, <1>8 DEF IInv

LEMMA RunReturnsKeeps ==
  ASSUME IInv, RunReturns
  PROVE  IInv'
<1>1. /\ down # "no" /\ down # "raised" /\ down' \in {down, "killed"} /\ down' \in DownPC
      /\ down \in {"task", "monitor"} \/ down' = "killed"
      /\ cut' = TRUE
      /\ UNCHANGED <<position, committed, exec, active, tasks, cpc, sym, toStop, failures,
                     epoch, logged>>
  BY DEF RunReturns, DownPC, dbVars, memory
<1>2. Types' /\ DownInv'
  BY <1>1 DEF IInv, Types, DownInv, Stopping
<1>3. CurrentInv' /\ SettledInv' /\ EpochInv' /\ OrdersMatchPositions' /\ StoppedInv'
  BY <1>1
  DEF IInv, CurrentInv, SettledInv, EpochInv, OrdersMatchPositions, StoppedInv, cur, This,
      Settled, Executed
<1> QED
  BY <1>2, <1>3 DEF IInv

\* The monitors are gone with the process, and with them the positions they held.
LEMMA Forgotten ==
  ASSUME Types, exec' = [e \in DOMAIN exec |-> [exec[e] EXCEPT !.held = {}]]
  PROVE  /\ exec' \in Seq(Executions) /\ DOMAIN exec' = DOMAIN exec
         /\ \A e \in DOMAIN exec :
              /\ exec'[e].strategy = exec[e].strategy /\ exec'[e].epoch = exec[e].epoch
              /\ exec'[e].orders = exec[e].orders /\ exec'[e].row = exec[e].row
<1>1. ASSUME NEW e \in DOMAIN exec
      PROVE  /\ exec'[e] \in Executions
             /\ exec'[e].strategy = exec[e].strategy /\ exec'[e].epoch = exec[e].epoch
             /\ exec'[e].orders = exec[e].orders /\ exec'[e].row = exec[e].row
  <2>1. exec[e] \in Executions /\ exec[e] \in ExecutionRecord
    BY ExecFacts DEF Executions
  <2>2. exec'[e] = [strategy |-> exec[e].strategy, epoch |-> exec[e].epoch,
                    row |-> exec[e].row, orders |-> exec[e].orders, held |-> {}]
    BY <2>1 DEF ExecutionRecord
  <2> QED
    BY <2>1, <2>2 DEF Executions, ExecutionRecord
<1>2. exec' \in [1..cur -> Executions]
  BY <1>1, ExecFacts
<1> QED
  BY <1>1, <1>2, ExecFacts, SeqDef

\* Once an epoch is over, its executions are of an earlier one.
LEMMA NextEpoch ==
  ASSUME Types, EpochInv, epoch' = epoch + 1, DOMAIN exec' = DOMAIN exec,
         \A e \in DOMAIN exec :
           exec'[e].strategy = exec[e].strategy /\ exec'[e].epoch = exec[e].epoch
  PROVE  EpochInv'
<1>1. epoch \in Nat /\ \A e \in DOMAIN exec : exec[e].epoch \in Nat
  BY ExecFacts, FieldTypes, WorkerAssumption
<1>2. \A e \in DOMAIN exec : exec'[e].epoch <= epoch' /\ exec'[e].epoch # epoch'
  BY <1>1 DEF EpochInv
<1> QED
  BY <1>2 DEF EpochInv

LEMMA RestartKeeps ==
  ASSUME IInv, Restart
  PROVE  IInv'
<1>1. /\ Types /\ SettledInv /\ EpochInv
      /\ epoch' = epoch + 1 /\ epoch < MaxEpochs /\ position' = committed
      /\ exec' = [e \in DOMAIN exec |-> [exec[e] EXCEPT !.held = {}]]
      /\ active' = {} /\ tasks' = {} /\ cpc' = "poll" /\ sym' = 0
      /\ down' = "no" /\ toStop' = {} /\ cut' = FALSE
      /\ UNCHANGED <<committed, failures, logged>>
  BY DEF IInv, Restart
<1>2. /\ exec' \in Seq(Executions) /\ DOMAIN exec' = DOMAIN exec
      /\ \A e \in DOMAIN exec :
           /\ exec'[e].strategy = exec[e].strategy /\ exec'[e].epoch = exec[e].epoch
           /\ exec'[e].orders = exec[e].orders /\ exec'[e].row = exec[e].row
  BY <1>1, Forgotten
<1>3. Types'
  <2>1. committed' \in 0..position' /\ position' \in 0..LogLength /\ epoch' \in 0..MaxEpochs
    BY <1>1, ExecFacts, WorkerAssumption DEF Types
  <2> QED
    BY <1>1, <1>2, <2>1 DEF Types, ConsumerPC, DownPC
<1>4. SettledInv'
  <2>1. \A m \in 1..committed : Settled(m)'
    BY <1>1, <1>2, SettledStays DEF SettledInv
  <2> QED
    BY <1>1, <2>1 DEF SettledInv, Handling
<1>5. EpochInv'
  BY <1>1, <1>2, NextEpoch
<1>6. CurrentInv' /\ OrdersMatchPositions' /\ DownInv' /\ StoppedInv'
  BY <1>1 DEF CurrentInv, OrdersMatchPositions, DownInv, StoppedInv, Handling, OnSymbol
<1> QED
  BY <1>3, <1>4, <1>5, <1>6 DEF IInv

LEMMA RebalanceKeeps ==
  ASSUME IInv, Rebalance
  PROVE  IInv'
<1>1. /\ Types /\ SettledInv /\ EpochInv
      /\ epoch' = epoch + 1 /\ epoch < MaxEpochs /\ position' = committed
      /\ UNCHANGED <<committed, exec, active, tasks, cpc, sym, down, toStop, cut, failures,
                     logged>>
  BY DEF IInv, Rebalance, dbVars, memory, shutdownVars
<1>2. Types'
  <2>1. committed' \in 0..position' /\ position' \in 0..LogLength /\ epoch' \in 0..MaxEpochs
    BY <1>1, ExecFacts, WorkerAssumption DEF Types
  <2> QED
    BY <1>1, <2>1 DEF Types
<1>3. SettledInv'
  <2>1. \A m : Settled(m)' <=> Settled(m)
    BY <1>1 DEF Settled, Executed
  <2>2. This' = This
    BY <1>1 DEF This, cur
  <2> QED
    BY <1>1, <2>1, <2>2 DEF SettledInv
<1>4. EpochInv'
  BY <1>1, NextEpoch
<1>5. CurrentInv' /\ OrdersMatchPositions' /\ DownInv' /\ StoppedInv'
  BY <1>1
  DEF IInv, CurrentInv, OrdersMatchPositions, DownInv, StoppedInv, cur, This, Stopping
<1> QED
  BY <1>2, <1>3, <1>4, <1>5 DEF IInv

-----------------------------------------------------------------------------
LEMMA InitIInv == Init => IInv
<1> SUFFICES ASSUME Init
             PROVE  IInv
  OBVIOUS
<1>1. Types
  <2>1. exec \in Seq(Executions)
    BY EmptySeq DEF Init
  <2>2. /\ position \in 0..LogLength /\ committed \in 0..position
        /\ failures \in 0..MaxFailures /\ epoch \in 0..MaxEpochs
    BY WorkerAssumption DEF Init
  <2> QED
    BY <2>1, <2>2 DEF Init, Types, ConsumerPC, DownPC
<1>2. DOMAIN exec = {}
  BY EmptySeq, LenProperties DEF Init
<1>3. CurrentInv /\ SettledInv /\ EpochInv /\ OrdersMatchPositions /\ DownInv /\ StoppedInv
  BY <1>2
  DEF Init, CurrentInv, SettledInv, EpochInv, OrdersMatchPositions, DownInv, StoppedInv,
      Handling, OnSymbol
<1> QED
  BY <1>1, <1>3 DEF IInv

LEMMA NextIInv == IInv /\ [Next]_vars => IInv'
<1> SUFFICES ASSUME IInv, [Next]_vars
             PROVE  IInv'
  OBVIOUS
<1>1. CASE Next
  BY <1>1, PollStep, ConsumerStepKeeps, SignalStep, ShutdownKeeps, RunReturnsKeeps,
     RestartKeeps, RebalanceKeeps
  DEF Next
<1>2. CASE UNCHANGED vars
  BY <1>2
  DEF vars, dbVars, memory, shutdownVars, IInv, Types, CurrentInv, SettledInv, EpochInv,
      OrdersMatchPositions, DownInv, StoppedInv, cur, This, Settled, Executed, Stopping
<1> QED
  BY <1>1, <1>2

LEMMA Invariance == Spec => []IInv
<1> QED
  BY InitIInv, NextIInv, PTL DEF Spec

LEMMA TypesImplyTypeOK == Types => TypeOK
<1> SUFFICES ASSUME Types
             PROVE  TypeOK
  OBVIOUS
<1>1. \A e \in DOMAIN exec : /\ exec[e] \in ExecutionRecord
                             /\ Len(exec[e].orders) = Symbols[exec[e].strategy]
                             /\ exec[e].held \subseteq DOMAIN exec[e].orders
  BY ExecFacts DEF Executions
<1>2. committed \in 0..LogLength
  BY ExecFacts
<1> QED
  BY <1>1, <1>2 DEF Types, TypeOK

\* A strategy whose offset is committed was executed, every order of it decided, or its
\* failure was logged, and its orders are placed a second time only in a later epoch,
\* for any log and whatever raises, crashes or rebalances
\* (strategy_consumer.py: "Manual commit after successful processing").
THEOREM EveryStrategyAccountedInvariant == Spec => []EveryStrategyAccounted
<1>1. IInv => EveryStrategyAccounted
  BY TypesImplyTypeOK DEF IInv, SettledInv, EpochInv, EveryStrategyAccounted
<1> QED
  BY <1>1, Invariance, PTL

\* The positions of a running monitor and the order table agree, for any number of
\* orders: only the order in hand when a call raised or was cut off can lack its
\* position (strategy_executor.py: _execute_initial_orders).
THEOREM OrdersMatchPositionsInvariant == Spec => []OrdersMatchPositions
<1>1. IInv => OrdersMatchPositions
  BY DEF IInv
<1> QED
  BY <1>1, Invariance, PTL

\* When shutdown() returns, no execution runs a task or a monitor and none can start
\* (main.py: shutdown).
THEOREM ShutdownStopsAllInvariant == Spec => []ShutdownStopsAll
<1>1. IInv => ShutdownStopsAll
  BY DEF IInv, Types, DownInv, ShutdownStopsAll
<1> QED
  BY <1>1, Invariance, PTL

\* The second part of EveryStrategySettled: no order of a stopped execution is placed or
\* changed, its row is not overwritten and it does not run again.
StoppedStays ==
  [][\A e \in DOMAIN exec : exec[e].row = "stopped" =>
        /\ exec'[e].row = "stopped" /\ exec'[e].orders = exec[e].orders
        /\ e \notin active']_vars

LEMMA StoppedStep ==
  ASSUME IInv, Next, NEW e \in DOMAIN exec, exec[e].row = "stopped"
  PROVE  exec'[e].row = "stopped" /\ exec'[e].orders = exec[e].orders /\ e \notin active'
<1>0. /\ Types /\ CurrentInv /\ StoppedInv /\ DownInv /\ e \notin active
      /\ e = cur => cpc \notin Handling
  BY DEF IInv, StoppedInv, CurrentInv, This
<1>1. CASE ConsumerStep \/ Signal
  <2>1. e \in active' => e \in active \/ (e = cur /\ cpc = "create")
    <3>1. CASE Created
      BY <3>1 DEF Created
    <3>2. CASE Answered /\ ~Created
      <4>1. active' = active
        BY <3>2
        DEF Answered, Ordered, Checked, Refused, Accepted, Tracked, Rejected, Marked,
            Committed, NextSymbol, memory
      <4> QED
        BY <4>1
    <3>3. CASE Raised \/ Signal
      <4>1. active' = active
        BY <3>3 DEF Raised, Signal, memory
      <4> QED
        BY <4>1
    <3> QED
      BY <1>1, <3>1, <3>2, <3>3 DEF ConsumerStep
  <2>2. CASE Accepted
    <3>1. /\ cpc = "accept"
          /\ exec' = [exec EXCEPT ![cur].orders[sym] = "ACCEPTED", ![cur].held = @ \cup {sym}]
      BY <2>2 DEF Accepted
    <3>2. cur # e
      BY <1>0, <3>1 DEF Handling
    <3>3. exec'[e] = exec[e]
      BY <3>1, <3>2
    <3> QED
      BY <1>0, <2>1, <3>1, <3>3
  <2>3. CASE exec' = exec
    BY <1>0, <2>1, <2>3 DEF Handling
  <2>4. CASE ~Accepted /\ exec' # exec
    <3>1. Apply(cpc) /\ cpc # "cancelled"
      BY <1>0, <1>1, <2>4
      DEF Signal, StopConsumer, ConsumerStep, Answered, Raised, Created, Ordered, Checked,
          Refused, Tracked, Rejected, Marked, Committed, OnError, dbVars, DownInv
    <3>2. CurOnly /\ cpc \in Handling
      BY <2>4, <3>1, CutOff
    <3>3. exec'[e] = exec[e]
      BY <1>0, <3>2 DEF CurOnly
    <3> QED
      BY <1>0, <2>1, <3>2, <3>3
  <2> QED
    BY <2>2, <2>3, <2>4
<1>2. CASE Poll
  <2>1. active' = active
    BY <1>2 DEF Poll, memory
  <2>2. exec' = exec \/ exec' = Append(exec, NewExecution(position + 1))
    BY <1>2 DEF Poll, Deliver, dbVars
  <2>3. exec'[e] = exec[e]
    <3>1. position + 1 \in 1..LogLength
      BY <1>0, <1>2, ExecFacts DEF Poll
    <3> QED
      BY <1>0, <2>2, <3>1, Appended
  <2> QED
    BY <1>0, <2>1, <2>3
<1>3. CASE ShutdownStep
  <2>1. exec' \in {exec, [exec EXCEPT ![Stopping].row = "stopped"]} /\ active' \subseteq active
    <3>1. CASE StopMonitor
      BY <3>1 DEF StopMonitor, ClosePositions
    <3>2. CASE ~StopMonitor
      BY <1>3, <3>2 DEF ShutdownStep, ListExecutions, StopTask, MarkStopped, dbVars, memory
    <3> QED
      BY <3>1, <3>2
  <2> QED
    BY <1>0, <2>1, Marks
<1>4. CASE RunReturns \/ Rebalance
  BY <1>0, <1>4 DEF RunReturns, Rebalance, dbVars, memory
<1>5. CASE Restart
  <2>1. active' = {} /\ exec' = [d \in DOMAIN exec |-> [exec[d] EXCEPT !.held = {}]]
    BY <1>5 DEF Restart
  <2> QED
    BY <1>0, <2>1, Forgotten
<1> QED
  BY <1>1, <1>2, <1>3, <1>4, <1>5 DEF Next

THEOREM StoppedStaysTheorem == Spec => StoppedStays
<1>1. IInv /\ [Next]_vars =>
        [\A e \in DOMAIN exec : exec[e].row = "stopped" =>
            /\ exec'[e].row = "stopped" /\ exec'[e].orders = exec[e].orders
            /\ e \notin active']_vars
  BY StoppedStep
<1> QED
  BY <1>1, Invariance, PTL DEF Spec, StoppedStays
===============================================================================
