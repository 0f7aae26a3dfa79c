--------------------------- MODULE MarketPublisher ---------------------------
(***************************************************************************)
(* The publishing half of the data-ingestion-service: what becomes of a    *)
(* message once the WebSocket client (MarketFeed) has buffered it.  The    *)
(* processor goroutine parses and validates it (internal/kis/              *)
(* message_parser.go), MarketProducer sends it (internal/producer), and    *)
(* the shared Producer (shared/go/pkg/kafka/producer.go) hands it to       *)
(* sarama's asynchronous producer, whose results two more goroutines read. *)
(* main stops all of it, under a timeout (cmd/server/main.go).             *)
(*                                                                         *)
(* sarama and the broker are external: a buffer of what was accepted, a    *)
(* log, and the channels Successes and Errors.  A message is known by its  *)
(* place in Frames.                                                        *)
(***************************************************************************)
EXTENDS Naturals, Sequences, FiniteSets, SequencesExt

CONSTANTS Frames,      \* the messages KIS sends, in order
          InputSize,   \* messages sarama holds between Input and the broker
          ResultSize,  \* capacity of Successes, and of Errors
          RetryMax,    \* Producer.Retry.Max
          Nothing      \* a goroutine has no message in hand

VARIABLES
  main,      \* where Service.WaitForShutdown and Stop are
  ctxDone,   \* the WebSocket client's context is cancelled
  next,      \* the message processMessages takes next
  sending,   \* the message it is sending, with the producer's lock read-held
  pipe,      \* accepted by Input, without a result
  tries,     \* [DOMAIN Frames -> Nat], requests that carried the message
  log,       \* what the broker appended to the topics
  successes, \* the channel Successes
  errors,    \* the channel Errors
  won, lost, \* what handleSuccesses and handleErrors have in hand
  count,     \* tickCount, orderBookCount and errorCount of MarketProducer
  refused,   \* history: messages whose Send returned an error
  drained,   \* history: results that sarama's Close took from the channels
  counted    \* history: messages whose result went into a counter

feedVars == <<next, sending, refused>>
saramaVars == <<pipe, tries, log>>
resultVars == <<successes, errors, won, lost>>
metricVars == <<count, counted>>
vars == <<main, ctxDone, feedVars, saramaVars, resultVars, metricVars, drained>>

Ids == DOMAIN Frames

PublisherAssumption ==
  /\ DOMAIN Frames = 1 .. Len(Frames) /\ Len(Frames) \in Nat
  /\ {InputSize, ResultSize, RetryMax} \subseteq Nat
  /\ Nothing \notin Ids

Metrics == {"tick", "orderbook", "error"}

TypeOK ==
  /\ main \in {"running", "waiting", "close", "draining", "closed", "exited", "forced"}
  /\ ctxDone \in BOOLEAN
  /\ next \in 1 .. (Len(Frames) + 1)
  /\ {sending, won, lost} \subseteq Ids \cup {Nothing}
  /\ ToSet(pipe) \cup ToSet(log) \cup ToSet(successes) \cup ToSet(errors) \subseteq Ids
  /\ Len(pipe) <= InputSize /\ Len(successes) <= ResultSize /\ Len(errors) <= ResultSize
  /\ tries \in [Ids -> 0 .. (RetryMax + 1)]
  /\ count \in [Metrics -> Nat]
  /\ refused \cup drained \cup counted \subseteq Ids

\* The process comes into being with everything empty; s is "running", or "exited" for
\* a process that is not there.
InitAt(s) ==
  /\ main = s /\ ctxDone = FALSE /\ next = 1 /\ sending = Nothing
  /\ pipe = <<>> /\ tries = [i \in Ids |-> 0] /\ log = <<>>
  /\ successes = <<>> /\ errors = <<>> /\ won = Nothing /\ lost = Nothing
  /\ count = [m \in Metrics |-> 0]
  /\ refused = {} /\ drained = {} /\ counted = {}

Init == InitAt("running")

\* The process is there.
Alive == main \notin {"exited", "forced"}

\* Close holds the producer's lock while it drains.
WriteLocked == main = "draining"

-----------------------------------------------------------------------------
(* MessageParser: a message is a record [json, status, tr, symbol, price,  *)
(* volume, levels]; a price is "positive", "zero", "negative" or "bad", a  *)
(* volume "natural", "negative" or "bad".  An empty number is zero, and a  *)
(* time that cannot be parsed is the present.                              *)

Parses(x) == x # "bad"

\* parseTickData: only symbol, price and volume can fail it.
parseTickData(m) == m.symbol /\ Parses(m.price) /\ Parses(m.volume)

\* parseOrderBook: a level that cannot be parsed is left out.
parseOrderBook(m) == m.symbol

\* Parse: what type the message is, with the TR ids the code lists.
Parse(m) ==
  IF ~m.json \/ ~m.status THEN "error"
  ELSE CASE m.tr \in {"H0STCNT0", "H0STASP0"} -> IF parseTickData(m) THEN "tick" ELSE "error"
         [] m.tr = "H0STASP1" -> IF parseOrderBook(m) THEN "orderbook" ELSE "error"
         [] OTHER -> "unknown"

ValidateTickData(m) == m.price = "positive" /\ m.volume = "natural"
ValidateOrderBook(m) == m.levels > 0

\* handleMessage sends what is of a known type and valid, and skips the rest.
Publishable(i) ==
  LET m == Frames[i] IN
  \/ Parse(m) = "tick" /\ ValidateTickData(m)
  \/ Parse(m) = "orderbook" /\ ValidateOrderBook(m)

\* The topic, and the partition the key (the symbol) leads to.
Topic(i) == Parse(Frames[i])
SamePartition(i, j) == Topic(i) = Topic(j) /\ Frames[i].key = Frames[j].key

-----------------------------------------------------------------------------
(* processMessages -> handleMessage -> PublishTickData, PublishOrderBook.  *)

Processing == Alive /\ main \in {"running", "waiting"} /\ sending = Nothing

\* The end of the context ends the loop; what is buffered then is not handled.
ProcessorEnds ==
  /\ Processing /\ ctxDone /\ main = "waiting"
  /\ main' = "close"
  /\ UNCHANGED <<ctxDone, feedVars, saramaVars, resultVars, metricVars, drained>>

\* A message that is not published: parse errors and unknown types are logged.
SkipMessage ==
  /\ Processing /\ next \in Ids /\ ~Publishable(next)
  /\ next' = next + 1
  /\ UNCHANGED <<main, ctxDone, sending, refused, saramaVars, resultVars, metricVars,
                 drained>>

\* SendProto and Send up to the select, with the read lock.
StartSend ==
  /\ Processing /\ next \in Ids /\ Publishable(next) /\ ~WriteLocked
  /\ sending' = next /\ next' = next + 1
  /\ UNCHANGED <<main, ctxDone, refused, saramaVars, resultVars, metricVars, drained>>

\* Input has room.
SendAccepted ==
  /\ Alive /\ sending # Nothing /\ Len(pipe) < InputSize
  /\ pipe' = Append(pipe, sending) /\ sending' = Nothing
  /\ UNCHANGED <<main, ctxDone, next, refused, tries, log, resultVars, metricVars, drained>>

\* The context ends the wait for room; PublishTickData and PublishOrderBook count it.
\* (Market data is never too long, and the producer not closed while this runs.)
SendRefused ==
  /\ Alive /\ sending # Nothing /\ ctxDone
  /\ refused' = refused \cup {sending} /\ sending' = Nothing
  /\ count' = [count EXCEPT !["error"] = @ + 1]
  /\ UNCHANGED <<main, ctxDone, next, saramaVars, resultVars, counted, drained>>

-----------------------------------------------------------------------------
(* sarama and the broker.                                                  *)

\* Mutant of EnableIdempotence: retries overtake and are appended twice.
EnableIdempotence_Off == FALSE

\* ToSaramaProducerConfig: idempotent, so one request at a time per broker, and the
\* broker knows a message it has already appended.
EnableIdempotence == TRUE

InLog(i) == i \in ToSet(log)
MaySend(i) ==
  /\ i \in ToSet(pipe) /\ tries[i] <= RetryMax
  /\ EnableIdempotence =>
       \A k \in DOMAIN pipe : SamePartition(pipe[k], i) =>
         \E l \in 1 .. k : pipe[l] = i

\* pipe holds a message once.
Without(s, i) == RemoveAt(s, CHOOSE k \in DOMAIN s : s[k] = i)

\* A request reaches the broker; its answer comes back, or is lost and it is retried.
BrokerAppends(i) ==
  /\ Alive /\ MaySend(i)
  /\ log' = IF EnableIdempotence /\ InLog(i) THEN log ELSE Append(log, i)
  /\ \/ /\ Len(successes) < ResultSize
        /\ successes' = Append(successes, i) /\ pipe' = Without(pipe, i)
        /\ UNCHANGED tries
     \/ tries' = [tries EXCEPT ![i] = @ + 1] /\ UNCHANGED <<pipe, successes>>
  /\ UNCHANGED <<main, ctxDone, feedVars, errors, won, lost, metricVars, drained>>

\* A request does not reach the broker.
RequestFails(i) ==
  /\ Alive /\ MaySend(i)
  /\ tries' = [tries EXCEPT ![i] = @ + 1]
  /\ UNCHANGED <<main, ctxDone, feedVars, pipe, log, resultVars, metricVars, drained>>

\* The retries are used up: the message goes to Errors.
RetriesEnd(i) ==
  /\ Alive /\ i \in ToSet(pipe) /\ tries[i] = RetryMax + 1
  /\ Len(errors) < ResultSize
  /\ errors' = Append(errors, i) /\ pipe' = Without(pipe, i)
  /\ UNCHANGED <<main, ctxDone, feedVars, tries, log, successes, won, lost, metricVars,
                 drained>>

SaramaStep == \E i \in Ids : BrokerAppends(i) \/ RequestFails(i) \/ RetriesEnd(i)

-----------------------------------------------------------------------------
(* handleSuccesses and handleErrors: a result is taken from the channel,   *)
(* then the lock is read-held to look the handler up.                      *)

TakeSuccess ==
  /\ Alive /\ won = Nothing /\ successes # <<>>
  /\ won' = Head(successes) /\ successes' = Tail(successes)
  /\ UNCHANGED <<main, ctxDone, feedVars, saramaVars, errors, lost, metricVars, drained>>

\* onSuccess of MarketProducer counts by topic.
HandleSuccess ==
  /\ Alive /\ won # Nothing /\ ~WriteLocked
  /\ count' = [count EXCEPT ![Topic(won)] = @ + 1]
  /\ counted' = counted \cup {won} /\ won' = Nothing
  /\ UNCHANGED <<main, ctxDone, feedVars, saramaVars, successes, errors, lost, drained>>

TakeError ==
  /\ Alive /\ lost = Nothing /\ errors # <<>>
  /\ lost' = Head(errors) /\ errors' = Tail(errors)
  /\ UNCHANGED <<main, ctxDone, feedVars, saramaVars, successes, won, metricVars, drained>>

\* Mutant of HandleError: no handler has been set.
HandleError_NotSet ==
  /\ Alive /\ lost # Nothing /\ ~WriteLocked
  /\ lost' = Nothing
  /\ UNCHANGED <<main, ctxDone, feedVars, saramaVars, successes, errors, won, drained,
                 metricVars>>

\* onError of MarketProducer counts and logs.
HandleError ==
  /\ Alive /\ lost # Nothing /\ ~WriteLocked
  /\ count' = [count EXCEPT !["error"] = @ + 1]
  /\ counted' = counted \cup {lost} /\ lost' = Nothing
  /\ UNCHANGED <<main, ctxDone, feedVars, saramaVars, successes, errors, won, drained>>

-----------------------------------------------------------------------------
(* Shutdown: Service.Stop stops the WebSocket client, which cancels its    *)
(* context and waits for the processor, then closes the producer.          *)

Signal ==
  /\ main = "running"
  /\ main' = "waiting" /\ ctxDone' = TRUE
  /\ UNCHANGED <<feedVars, saramaVars, resultVars, metricVars, drained>>

\* Producer.Close takes the lock, sets closed and calls sarama's Close.
CloseProducer ==
  /\ main = "close" /\ sending = Nothing
  /\ main' = "draining"
  /\ UNCHANGED <<ctxDone, feedVars, saramaVars, resultVars, metricVars, drained>>

\* sarama's Close reads both channels itself, beside the two goroutines: it throws
\* successes away and returns the errors.
SaramaCloseDrains ==
  /\ main = "draining"
  /\ \/ /\ successes # <<>> /\ successes' = Tail(successes)
        /\ drained' = drained \cup {Head(successes)} /\ UNCHANGED errors
     \/ /\ errors # <<>> /\ errors' = Tail(errors)
        /\ drained' = drained \cup {Head(errors)} /\ UNCHANGED successes
  /\ UNCHANGED <<main, ctxDone, feedVars, saramaVars, won, lost, metricVars>>

\* Mutant of CloseReturns: Close, holding the lock, waits for the handlers too.
CloseReturns_Waits ==
  /\ main = "draining" /\ pipe = <<>> /\ successes = <<>> /\ errors = <<>>
  /\ won = Nothing /\ lost = Nothing
  /\ main' = "closed"
  /\ UNCHANGED <<ctxDone, feedVars, saramaVars, resultVars, metricVars, drained>>

\* Everything has its result and both channels are empty: Close returns.
CloseReturns ==
  /\ main = "draining" /\ pipe = <<>> /\ successes = <<>> /\ errors = <<>>
  /\ main' = "closed"
  /\ UNCHANGED <<ctxDone, feedVars, saramaVars, resultVars, metricVars, drained>>

\* The Redis client is closed and main returns.
Exit ==
  /\ main = "closed"
  /\ main' = "exited"
  /\ UNCHANGED <<ctxDone, feedVars, saramaVars, resultVars, metricVars, drained>>

\* The shutdown timeout (30 s): main returns whatever Stop is waiting for.
ForceExit ==
  /\ main \in {"waiting", "close", "draining", "closed"}
  /\ main' = "forced"
  /\ UNCHANGED <<ctxDone, feedVars, saramaVars, resultVars, metricVars, drained>>

ProcessorStep == SkipMessage \/ StartSend \/ SendAccepted \/ SendRefused
MainStep == ProcessorEnds \/ CloseProducer \/ SaramaCloseDrains \/ CloseReturns \/ Exit

Next ==
  \/ ProcessorStep \/ SaramaStep
  \/ TakeSuccess \/ HandleSuccess \/ TakeError \/ HandleError
  \/ Signal \/ MainStep \/ ForceExit

\* Goroutines are scheduled, and a request to the broker has an answer or a timeout.
\* ProcessorEnds, of MainStep, stays enabled once the messages that were buffered when
\* the context ended are handled.
Fairness ==
  /\ WF_vars(ProcessorStep) /\ WF_vars(SaramaStep) /\ WF_vars(MainStep)
  /\ WF_vars(TakeSuccess) /\ WF_vars(HandleSuccess)
  /\ WF_vars(TakeError) /\ WF_vars(HandleError)

Spec == Init /\ [][Next]_vars
LiveSpec == Spec /\ Fairness

-----------------------------------------------------------------------------
(* Properties.                                                             *)

Before(i, j) == \E k, l \in DOMAIN log : k < l /\ log[k] = i /\ log[l] = j

\* Whatever is retried, a topic carries a message once, and the messages of one symbol
\* in the order KIS sent them (config.go:186, market_producer.go:56).
OncePerTopicInOrder ==
  /\ IsInjective(log)
  /\ \A i, j \in ToSet(log) : SamePartition(i, j) /\ i < j => Before(i, j)

Unfinished ==
  ToSet(pipe) \cup ToSet(successes) \cup ToSet(errors) \cup ({won, lost, sending} \ {Nothing})
Taken == {i \in Ids : i < next /\ Publishable(i)}

\* No message the processor took is forgotten: it is under way, or refused to the
\* processor, or its result was counted or read by Close; what is neither in a topic
\* nor under way was refused, counted as an error or returned by Close; and the three
\* counters miss only what Close drained.
EveryMessageAccounted ==
  /\ TypeOK
  /\ Taken = Unfinished \cup refused \cup counted \cup drained
  /\ \A i \in Taken \ (Unfinished \cup refused) : InLog(i) \/ tries[i] = RetryMax + 1
  /\ count["tick"] + count["orderbook"] + count["error"]
       = Cardinality(counted) + Cardinality(refused)
  /\ count["tick"] + count["orderbook"] <= Len(log)

\* Stop comes to its end without the help of its timeout: Close holds the producer's
\* lock while handleSuccesses and handleErrors wait for it, and still everything drains
\* (producer.go:127-136); and a Send that waits for room returns, for the results are
\* read all the while (producer.go:88-95).
ServiceStops ==
  /\ main = "waiting" ~> main \in {"exited", "forced"}
  /\ sending # Nothing ~> sending = Nothing \/ main = "forced"
=============================================================================
