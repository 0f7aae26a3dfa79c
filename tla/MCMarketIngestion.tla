-------------------------- MODULE MCMarketIngestion --------------------------
(***************************************************************************)
(* Small instances of the two halves of the data-ingestion-service that    *)
(* meet in messageChan: MarketFeed, which fills it, and MarketPublisher,   *)
(* which empties it.  A behaviour is one of the half that `half` names,    *)
(* the other stays in its initial state, so that their state spaces add up *)
(* instead of multiplying.                                                 *)
(***************************************************************************)
EXTENDS Naturals, Sequences

CONSTANTS MaxConns, MaxAttempts, BufferSize,
          Frames, InputSize, ResultSize, RetryMax, Nothing, k1, k2

TickOf(k) == [json |-> TRUE, status |-> TRUE, tr |-> "H0STCNT0", symbol |-> TRUE, key |-> k,
              price |-> "positive", volume |-> "natural", levels |-> 0]

\* A tick, one that does not validate, one more of the same symbol, an order book.
SomeFrames == << TickOf(k1), [TickOf(k1) EXCEPT !.price = "zero"], TickOf(k1),
                 [TickOf(k2) EXCEPT !.tr = "H0STASP1", !.levels = 1] >>

VARIABLES half,
          conn, status, wire, trigger, inbox, feedCtxDone, token, feedMain,
          reader, readConn, processor, beat, beatConn, handler, attempt,
          stage, cancelled, next, sending, pipe, requests, log, successes, errors,
          won, failing, count, refused, drained, counted

Feed == INSTANCE MarketFeed WITH ctxDone <- feedCtxDone, main <- feedMain

Publisher == INSTANCE MarketPublisher
  WITH main <- stage, ctxDone <- cancelled, tries <- requests, lost <- failing

ASSUME FeedIsAssumed == Feed!FeedAssumption
ASSUME PublisherIsAssumed == Publisher!PublisherAssumption

feedVars == <<conn, status, wire, trigger, inbox, feedCtxDone, token, feedMain, reader,
              readConn, processor, beat, beatConn, handler, attempt>>
publisherVars == <<stage, cancelled, next, sending, pipe, requests, log, successes, errors,
                   won, failing, count, refused, drained, counted>>

IngestionInit ==
  /\ Feed!Init
  /\ \/ half = "feed" /\ Publisher!InitAt("exited")
     \/ half = "publisher" /\ Publisher!Init

FeedStep == half = "feed" /\ Feed!Next /\ UNCHANGED <<half, publisherVars>>
PublisherStep == half = "publisher" /\ Publisher!Next /\ UNCHANGED <<half, feedVars>>

\* The fairness of MarketFeed, for its own behaviours.  That of MarketPublisher asks
\* nothing of a process that is not there.
FeedFairness ==
  /\ SF_feedVars(half = "feed" /\ Feed!ReaderStep)
  /\ WF_feedVars(half = "feed" /\ Feed!ProcessorStep)
  /\ WF_feedVars(half = "feed" /\ Feed!Ping) /\ SF_feedVars(half = "feed" /\ Feed!BeatEnds)
  /\ WF_feedVars(half = "feed" /\ Feed!HandlerStep)
  /\ SF_feedVars(half = "feed" /\ Feed!StopStep)

IngestionSpec == /\ IngestionInit
                 /\ [][FeedStep \/ PublisherStep]_<<half, feedVars, publisherVars>>
                 /\ FeedFairness
                 /\ Publisher!Fairness

\* The properties of the two under their own names; see MarketFeed and MarketPublisher.
OneConnection == Feed!OneConnection
FailureNoticed == Feed!FailureNoticed
OncePerTopicInOrder == Publisher!OncePerTopicInOrder
EveryMessageAccounted == Publisher!EveryMessageAccounted
ServiceStops == Feed!StopReturns /\ Publisher!ServiceStops
=============================================================================
