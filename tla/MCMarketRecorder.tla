-------------------------- MODULE MCMarketRecorder --------------------------
(***************************************************************************)
(* Small instances for TLC: MarketRecorder; a BatchBuffer of its own that  *)
(* any number of goroutines fill and that may be stopped and flushed at    *)
(* any time, as its API allows; and the S3 writer.  A behaviour is one of  *)
(* the part that `part` names; the others do not move, so that the state   *)
(* spaces add up instead of multiplying.                                   *)
(***************************************************************************)
EXTENDS MarketRecorder

CONSTANTS p1, Adders, BufMessages, BufMaxSize, BufMaxRetries, BufFinalRetries,
          Calls, u1, UploadRetries, MaxSecond, Nobody

Quote(price) == [topic |-> "market.tick", decodes |-> TRUE,
                 data |-> [symbol |-> "005930", price |-> price, volume |-> 0,
                           timestamp |-> 1]]
Book(quantity) == [topic |-> "market.orderbook", decodes |-> TRUE,
                   data |-> [symbol |-> "005930", timestamp |-> 1, bids |-> << >>,
                             asks |-> <<[price |-> 1, quantity |-> quantity]>>]]

\* Two ticks and one whose price is zero; two order books, of which the second
\* has a level with nothing left.
Ticks == [m \in Messages |-> IF m[2] = 3 THEN Quote(0) ELSE Quote(1)]
Books == [m \in Messages |-> Book(m[2] - 1)]

VARIABLES part,
          bBuffer, bFlushCh, bTicked, bAge, bRunning, bCtxDone, bFpc, bForced, bBatch,
          bTries, bRound, bAdding, bRows, bAccepted, bFlushed, bFailed, bDropped, bUnclear,
          sNow, sClosed, sPc, sStamp, sTries, sObject

Alone == INSTANCE BatchBuffer
  WITH Messages <- BufMessages, MaxSize <- BufMaxSize, MaxRetries <- BufMaxRetries,
       FinalRetries <- BufFinalRetries, DbFails <- TRUE,
       buffer <- bBuffer, flushCh <- bFlushCh, ticked <- bTicked, age <- bAge,
       running <- bRunning, ctxDone <- bCtxDone, fpc <- bFpc, forced <- bForced,
       batch <- bBatch, tries <- bTries, round <- bRound, adding <- bAdding,
       rows <- bRows, accepted <- bAccepted, flushed <- bFlushed, failed <- bFailed,
       dropped <- bDropped, unclear <- bUnclear

aloneVars == <<bBuffer, bFlushCh, bTicked, bAge, bRunning, bCtxDone, bFpc, bForced, bBatch,
               bTries, bRound, bAdding, bRows, bAccepted, bFlushed, bFailed, bDropped,
               bUnclear>>

\* One batch holds both kinds, the others ticks.
Batches == [c \in Calls |-> IF c = u1 THEN {"tick", "orderbook"} ELSE {"tick"}]
Archive == INSTANCE S3Writer
  WITH Contents <- Batches, MaxRetries <- UploadRetries, now <- sNow,
       closed <- sClosed, pc <- sPc, stamp <- sStamp, tries <- sTries, object <- sObject

archiveVars == <<sNow, sClosed, sPc, sStamp, sTries, sObject>>

ASSUME InstancesAssumption == Alone!BufferAssumption /\ Archive!S3Assumption

MCInit ==
  /\ Init /\ Archive!Init
  /\ \/ part = "recorder" /\ Alone!InitAt("done", TRUE, 2)
     \/ part = "buffer" /\ Alone!Init
     \/ part = "archive" /\ Alone!InitAt("done", TRUE, 2)

RecorderStep == part = "recorder" /\ Next /\ UNCHANGED <<part, aloneVars, archiveVars>>
BufferStep == part = "buffer" /\ Alone!Next /\ UNCHANGED <<part, vars, archiveVars>>
ArchiveStep == part = "archive" /\ Archive!Next /\ UNCHANGED <<part, vars, aloneVars>>

\* The fairness of BatchBuffer asks nothing of a flusher that is done and of a ticker
\* whose last tick was not taken.
MCSpec == /\ MCInit
          /\ [][RecorderStep \/ BufferStep \/ ArchiveStep]_<<part, vars, aloneVars, archiveVars>>
          /\ Alone!Fairness

\* Properties of the other two under their own names; see BatchBuffer and S3Writer.
RowsExact == Alone!RowsExact
EventuallyTaken == Alone!EventuallyTaken
ArchiveIsTrue == Archive!ArchiveIsTrue
=============================================================================
