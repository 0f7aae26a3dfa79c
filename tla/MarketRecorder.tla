--------------------------- MODULE MarketRecorder ---------------------------
(***************************************************************************)
(* The data-recorder-service for one message type: the Kafka consumer      *)
(* (internal/pkg/kafka/consumer.go, internal/consumer/market_consumer.go), *)
(* a BatchBuffer with its writer, instantiated as Buf, and the life of the *)
(* process (cmd/server/main.go).  The tick and the order-book path have    *)
(* the same code and share no state.                                       *)
(*                                                                         *)
(* Each partition is claimed by a goroutine that handles its messages one  *)
(* by one.  A message is <<partition, offset>>, offsets start at 1.        *)
(***************************************************************************)
EXTENDS Integers, Sequences, Functions

CONSTANTS Partitions,
          LogLength,   \* bound: messages in each partition
          Content,     \* what each message says, see Usable
          MaxRestarts, \* bound: crashes and rebalances
          NoMessage, MaxSize, MaxRetries, FinalRetries, DbFails
                       \* see BatchBuffer

Messages == Partitions \X (1..LogLength)

ASSUME RecorderAssumption == /\ DOMAIN Content = Messages
                             /\ MaxRestarts \in Nat /\ LogLength \in Nat

(* What a message must say to get a row.  A price may be any number, the   *)
(* levels of an order book are sequences of [price, quantity].             *)
ValidTickData(tick) == /\ tick.symbol # ""
                       /\ tick.price > 0 /\ tick.volume >= 0
                       /\ tick.timestamp > 0

ValidLevels(levels) ==
  \A i \in DOMAIN levels : levels[i].price > 0 /\ levels[i].quantity >= 0

ValidOrderBook(ob) == /\ ob.symbol # ""
                      /\ ob.bids # << >> \/ ob.asks # << >>
                      /\ ob.timestamp > 0
                      /\ ValidLevels(ob.bids) /\ ValidLevels(ob.asks)

(* handleMessage routes by topic; it ignores topics it does not know.      *)
Usable(m) ==
  LET c == Content[m] IN
    \/ c.topic = "market.tick" /\ c.decodes /\ ValidTickData(c.data)
    \/ c.topic = "market.orderbook" /\ c.decodes /\ ValidOrderBook(c.data)

VARIABLES
  buffer, flushCh, ticked, age, running, ctxDone, fpc, forced, batch, tries,
  round, adding, rows, accepted, flushed, failed, dropped, unclear,
                \* the state of BatchBuffer
  position,     \* [Partitions -> Nat], last offset handed to handleMessage
  marked,       \* [Partitions -> Nat], last offset marked as consumed
  committed,    \* [Partitions -> Nat], last offset committed to the broker
  main,         \* MainPC, where main is
  consuming,    \* the goroutine of MarketConsumer.Start is in its loop
  restarts,     \* crashes and rebalances so far
  redelivered,  \* history: messages handed to handleMessage again
  lost          \* history: accepted messages a crash or the end of the
                \* process took with it

Buf == INSTANCE BatchBuffer WITH Adders <- Partitions
ASSUME BufferIsAssumed == Buf!BufferAssumption

bufVars == <<buffer, flushCh, ticked, age, running, ctxDone, fpc, forced, batch,
             tries, round, adding, rows, accepted, flushed, failed, dropped,
             unclear>>
consumerVars == <<position, marked, committed, redelivered, consuming>>
vars == <<bufVars, consumerVars, main, restarts, lost>>

MainPC == {"running", "stopping", "consumerStopped", "cancelled", "waiting",
           "exited"}
Alive == main # "exited"
Unwritten == Range(buffer) \cup Range(batch)
SelectedAdds == {adding[p] : p \in Partitions} \ {NoMessage}

TypeOK == /\ Buf!TypeOK
          /\ position \in [Partitions -> 0..LogLength]
          /\ marked \in [Partitions -> 0..LogLength]
          /\ committed \in [Partitions -> 0..LogLength]
          /\ main \in MainPC /\ consuming \in BOOLEAN
          /\ restarts \in 0..MaxRestarts
          /\ redelivered \subseteq Messages /\ lost \subseteq Messages

Init == /\ Buf!Init
        /\ position = [p \in Partitions |-> 0]
        /\ marked = [p \in Partitions |-> 0]
        /\ committed = [p \in Partitions |-> 0]
        /\ main = "running" /\ consuming = TRUE /\ restarts = 0
        /\ redelivered = {} /\ lost = {}

-----------------------------------------------------------------------------
(* ConsumeClaim takes the next message; while the session ends it may      *)
(* still take one, as its select chooses freely.                           *)
Idle(p) == adding[p] = NoMessage
CanTake(p) == /\ main \in {"running", "stopping"} /\ consuming
              /\ Idle(p)
              /\ position[p] < LogLength
Take(p) == position' = [position EXCEPT ![p] = @ + 1]
NextOf(p) == <<p, position[p] + 1>>
Mark(p, offset) == marked' = [marked EXCEPT ![p] = offset]

(* handleTickMessage skips what it cannot use: no error, so it is marked.  *)
SkipInvalid(p) ==
  /\ CanTake(p) /\ ~Usable(NextOf(p))
  /\ Take(p) /\ Mark(p, position[p] + 1)
  /\ UNCHANGED <<bufVars, committed, redelivered, consuming, main, restarts, lost>>

\* Mutant of AddToBuffer: the message is marked before it is handled.
AddToBuffer_MarksEarly(p) ==
  /\ CanTake(p) /\ Usable(NextOf(p))
  /\ Take(p) /\ Mark(p, position[p] + 1)
  /\ Buf!AddCheck(p, NextOf(p))
  /\ UNCHANGED <<committed, redelivered, consuming, main, restarts, lost>>

(* It gives the others to the buffer.                                      *)
AddToBuffer(p) ==
  /\ CanTake(p) /\ Usable(NextOf(p))
  /\ Take(p)
  /\ Buf!AddCheck(p, NextOf(p))
  /\ UNCHANGED <<marked, committed, redelivered, consuming, main, restarts, lost>>

(* Add returns; the message is marked unless it returned an error.  After  *)
(* an error the loop goes on with the next message.                        *)
Added(p) ==
  /\ Buf!AddLocked(p)
  /\ IF accepted' # accepted THEN Mark(p, position[p]) ELSE UNCHANGED marked
  /\ UNCHANGED <<position, committed, redelivered, consuming, main, restarts, lost>>

(* sarama commits marked offsets now and then while there is a session.    *)
AutoCommit ==
  /\ main \in {"running", "stopping"} /\ consuming
  /\ committed' = marked
  /\ UNCHANGED <<bufVars, position, marked, redelivered, consuming, main, restarts, lost>>

(* The flusher and its timer.                                              *)
FlusherStep == /\ Alive
               /\ Buf!FlusherStep
               /\ UNCHANGED <<consumerVars, main, restarts, lost>>
TickerFires == /\ Alive
               /\ Buf!TickerFires
               /\ UNCHANGED <<consumerVars, main, restarts, lost>>

-----------------------------------------------------------------------------
\* A new session hands out what follows the committed offsets.
ResumeFrom(offsets) ==
  /\ position' = offsets /\ marked' = offsets
  /\ redelivered' = redelivered \cup
       {m \in Messages : offsets[m[1]] < m[2] /\ m[2] <= position[m[1]]}

\* Consumer.Start returned an error: MarketConsumer only logs it, and the process
\* runs on without consuming.
ConsumerEnds == consuming' = FALSE /\ UNCHANGED <<position, marked, redelivered>>

(* The partitions are assigned anew: ConsumeClaim returns, marked offsets  *)
(* are committed if the broker can be reached, and Consume is called again,*)
(* which may return an error.                                              *)
Rebalance ==
  /\ main = "running" /\ consuming /\ restarts < MaxRestarts
  /\ restarts' = restarts + 1
  /\ \A p \in Partitions : Idle(p)
  /\ \E reached \in BOOLEAN :
       /\ committed' = IF reached THEN marked ELSE committed
       /\ \/ ResumeFrom(committed') /\ UNCHANGED consuming
          \/ ConsumerEnds
  /\ UNCHANGED <<bufVars, main, lost>>

(* The process dies and is started again: memory is gone, the table and    *)
(* the committed offsets stay.                                             *)
Crash ==
  /\ Alive /\ restarts < MaxRestarts
  /\ restarts' = restarts + 1
  /\ lost' = lost \cup Unwritten
  /\ main' = "running" /\ consuming' = TRUE
  /\ buffer' = << >> /\ flushCh' = FALSE /\ ticked' = FALSE /\ age' = 0
  /\ running' = TRUE /\ ctxDone' = FALSE
  /\ fpc' = "select" /\ forced' = FALSE /\ batch' = << >>
  /\ tries' = 0 /\ round' = 0
  /\ adding' = [p \in Partitions |-> NoMessage]
  /\ accepted' = << >> /\ flushed' = << >>
  /\ ResumeFrom(committed)
  /\ UNCHANGED <<rows, unclear, failed, dropped, committed>>

-----------------------------------------------------------------------------
(* WaitForShutdown and Shutdown.                                           *)
Signal ==
  /\ main = "running" /\ main' = "stopping"
  /\ UNCHANGED <<bufVars, consumerVars, restarts, lost>>

\* consumer.Stop returns when all claims have ended; closing the group ends the
\* session, if there is one, and commits if the broker can be reached.
ConsumerStopped ==
  /\ main = "stopping" /\ main' = "consumerStopped"
  /\ \A p \in Partitions : Idle(p)
  /\ \E reached \in BOOLEAN :
       committed' = IF reached /\ consuming THEN marked ELSE committed
  /\ UNCHANGED <<bufVars, position, marked, redelivered, consuming, restarts, lost>>

Cancel ==
  /\ main = "consumerStopped" /\ main' = "cancelled"
  /\ Buf!CancelContext
  /\ UNCHANGED <<consumerVars, restarts, lost>>

FlushBuffers ==
  /\ main = "cancelled" /\ main' = "waiting"
  /\ Buf!Flush
  /\ UNCHANGED <<consumerVars, restarts, lost>>

\* All goroutines finished, or the timeout of the shutdown; then the writers
\* are closed and main returns.
Exit ==
  /\ main = "waiting" /\ main' = "exited"
  /\ lost' = lost \cup Unwritten
  /\ UNCHANGED <<bufVars, consumerVars, restarts>>

MainStep == Signal \/ ConsumerStopped \/ Cancel \/ FlushBuffers \/ Exit

Next == \/ \E p \in Partitions : SkipInvalid(p) \/ AddToBuffer(p) \/ Added(p)
        \/ AutoCommit
        \/ FlusherStep \/ TickerFires
        \/ Rebalance \/ Crash
        \/ MainStep

Spec == Init /\ [][Next]_vars

-----------------------------------------------------------------------------
(* Properties.                                                             *)

\* Every offset up to the committed one is accounted for: the message was
\* invalid, or counted as dropped, or belongs to a flush counted as failed, or
\* is on its way in memory, or was lost with the memory of the process, or has
\* a row (market_consumer.go:140-183, consumer.go:169-173); and it has several
\* rows only if it was handed out again or a commit was reported as an error
\* (timescale_writer.go:180).
EveryOffsetAccounted ==
  /\ TypeOK
  /\ \A p \in Partitions : \A o \in 1..committed[p] :
       \/ ~Usable(<<p, o>>)
       \/ <<p, o>> \in dropped \cup failed \cup Unwritten \cup lost
       \/ rows[<<p, o>>] > 0
  /\ ~unclear => \A m \in Messages : rows[m] > 1 => m \in redelivered

\* The buffer's own guarantees survive rebalances, crashes and shutdown: nothing
\* is lost inside, a full batch is signalled, and buffer and batch stay within
\* twice the batch size (batch_buffer.go:120-137); and as the consumer stops
\* first, the final flush takes all there is (main.go:272).
BufferIsSound ==
  /\ Buf!NothingLostInside /\ Buf!FullIsSignalled /\ Buf!MemoryBounded
  /\ fpc = "done" => buffer = << >> /\ SelectedAdds = {}

\* "Flush all buffers" (main.go:280): if the database is in order, a process
\* that was shut down and not killed leaves no accepted message unwritten.
ShutdownFlushesAll ==
  main = "exited" /\ fpc = "done" =>
    \A m \in Range(accepted) : rows[m] > 0
=============================================================================
