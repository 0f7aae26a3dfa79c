----------------------------- MODULE BatchBuffer -----------------------------
(***************************************************************************)
(* BatchBuffer of the data-recorder-service                                *)
(* (internal/buffer/batch_buffer.go) with the callback it is given, which  *)
(* is TimescaleWriter.WriteMessages (internal/writer/timescale_writer.go). *)
(* Any number of goroutines call Add; one goroutine, the flusher, runs     *)
(* Start.  The mutex protects the buffer, and the flusher writes outside   *)
(* of it, so Add and the write of a batch overlap.                         *)
(*                                                                         *)
(* An attempt to write a batch is one transaction: it commits, it fails,   *)
(* or it commits and the writer is told of an error.                       *)
(***************************************************************************)
EXTENDS Naturals, Sequences, Functions

CONSTANTS Adders,       \* goroutines that call Add
          Messages,
          NoMessage,
          MaxSize,      \* BatchBuffer.maxSize
          MaxRetries,   \* TimescaleConfig.MaxRetries, attempts of one callback
          FinalRetries, \* maxRetries of finalFlush, calls of the callback
          DbFails       \* a transaction may fail for a reason of its own

\* What is assumed of the constants; the modules that instantiate this one assume it of
\* the values that they give.
BufferAssumption == /\ NoMessage \notin Messages
                    /\ MaxSize \in Nat \ {0}
                    /\ MaxRetries \in Nat \ {0}
                    /\ FinalRetries \in Nat \ {0}
                    /\ DbFails \in BOOLEAN

VARIABLES
  buffer,   \* Seq(Messages)
  flushCh,  \* BOOLEAN, the channel flushCh (capacity 1) holds a signal
  ticked,   \* BOOLEAN, ticker.C (capacity 1) holds a tick
  age,      \* ticks fired since lastFlow was set, 2 for more
  running,  \* BatchBuffer.running
  ctxDone,  \* the context given to Start, which is also the writer's, is done
  fpc,      \* FlusherPC, where Start is
  forced,   \* argument of checkAndFlush
  batch,    \* Seq(Messages), the copy the flusher writes
  tries,    \* attempts of the present call of the callback
  round,    \* calls of the callback finalFlush made
  adding,   \* [Adders -> Messages \cup {NoMessage}], an Add that found running
            \* set and has not got the mutex yet
  rows,     \* [Messages -> Nat], rows the table has for a message
  accepted, \* history: messages Add returned nil for, in order
  flushed,  \* history: messages whose flush is over, in order
  failed,   \* history: messages of batches whose callback returned an error
  dropped,  \* history: messages Add returned an error for
  unclear   \* history: a transaction committed and an error was reported

bufferVars == <<buffer, flushCh, age, accepted>>
flusherVars == <<fpc, forced, batch, tries, round, flushed, failed>>
tableVars == <<rows, unclear>>
addVars == <<adding, dropped>>
controlVars == <<running, ctxDone>>
vars == <<bufferVars, ticked, flusherVars, tableVars, addVars, controlVars>>

FlusherPC == {"select", "check", "write", "final", "finalWrite", "done"}

TypeOK == /\ buffer \in Seq(Messages)
          /\ flushCh \in BOOLEAN /\ ticked \in BOOLEAN
          /\ age \in 0..2
          /\ running \in BOOLEAN /\ ctxDone \in BOOLEAN
          /\ fpc \in FlusherPC /\ forced \in BOOLEAN
          /\ batch \in Seq(Messages)
          /\ batch # << >> <=> fpc \in {"write", "finalWrite"}
          /\ tries \in 0..(MaxRetries - 1)
          /\ round \in 0..(FinalRetries - 1)
          /\ adding \in [Adders -> Messages \cup {NoMessage}]
          /\ rows \in [Messages -> Nat]
          /\ accepted \in Seq(Messages) /\ flushed \in Seq(Messages)
          /\ failed \subseteq Messages /\ dropped \subseteq Messages
          /\ unclear \in BOOLEAN

\* NewBatchBuffer, with the flusher at f, and the ticker and the age as given.
InitAt(f, t, old) ==
  /\ buffer = << >> /\ flushCh = FALSE /\ ticked = t /\ age = old
  /\ running = TRUE /\ ctxDone = FALSE
  /\ fpc = f /\ forced = FALSE /\ batch = << >>
  /\ tries = 0 /\ round = 0
  /\ adding = [a \in Adders |-> NoMessage]
  /\ rows = [m \in Messages |-> 0]
  /\ accepted = << >> /\ flushed = << >>
  /\ failed = {} /\ dropped = {} /\ unclear = FALSE

Init == InitAt("select", FALSE, 0)

-----------------------------------------------------------------------------
(* Add looks at running before it locks the mutex.                         *)
AddCheck(a, m) ==
  /\ adding[a] = NoMessage
  /\ \/ running /\ adding' = [adding EXCEPT ![a] = m] /\ UNCHANGED dropped
     \/ ~running /\ dropped' = dropped \cup {m} /\ UNCHANGED adding
  /\ UNCHANGED <<bufferVars, ticked, flusherVars, tableVars, controlVars>>

\* Mutant of AddLocked: no limit.
AddLocked_NoLimit(a) ==
  /\ adding[a] # NoMessage
  /\ adding' = [adding EXCEPT ![a] = NoMessage]
  /\ buffer' = Append(buffer, adding[a])
  /\ accepted' = Append(accepted, adding[a])
  /\ flushCh' = (flushCh \/ Len(buffer') >= MaxSize)
  /\ UNCHANGED <<age, dropped, ticked, flusherVars, tableVars, controlVars>>

(* The rest of Add, under the mutex.                                       *)
AddLocked(a) ==
  /\ adding[a] # NoMessage
  /\ adding' = [adding EXCEPT ![a] = NoMessage]
  /\ \/ /\ Len(buffer) >= 2 * MaxSize
        /\ dropped' = dropped \cup {adding[a]}
        /\ UNCHANGED bufferVars
     \/ /\ Len(buffer) < 2 * MaxSize
        /\ buffer' = Append(buffer, adding[a])
        /\ accepted' = Append(accepted, adding[a])
        /\ flushCh' = (flushCh \/ Len(buffer') >= MaxSize)
        /\ UNCHANGED <<age, dropped>>
  /\ UNCHANGED <<ticked, flusherVars, tableVars, controlVars>>

(* Flush and Stop, and the end of the context.  Stop also waits until the  *)
(* flusher is done.                                                        *)
Flush == /\ flushCh' = TRUE
         /\ UNCHANGED <<buffer, age, accepted, ticked, flusherVars, tableVars,
                        addVars, controlVars>>

Stop == /\ running
        /\ running' = FALSE
        /\ UNCHANGED <<bufferVars, ticked, flusherVars, tableVars, addVars,
                       ctxDone>>

CancelContext ==
  /\ ctxDone' = TRUE
  /\ UNCHANGED <<bufferVars, ticked, flusherVars, tableVars, addVars, running>>

(* A flushTimeout passes.  A tick is lost if the last one was not taken.   *)
TickerFires ==
  /\ ticked' = TRUE
  /\ age' = IF age = 2 THEN 2 ELSE age + 1
  /\ UNCHANGED <<buffer, flushCh, accepted, flusherVars, tableVars, addVars,
                 controlVars>>

-----------------------------------------------------------------------------
FlusherAt(from, to) == fpc = from /\ fpc' = to

(* The select statement of Start; it chooses among the cases that are      *)
(* ready.                                                                  *)
SelectEnd ==
  /\ FlusherAt("select", "final")
  /\ ctxDone \/ ~running
  /\ UNCHANGED <<bufferVars, ticked, forced, batch, tries, round, flushed,
                 failed, tableVars, addVars, controlVars>>

SelectTick ==
  /\ FlusherAt("select", "check")
  /\ ticked /\ ticked' = FALSE
  /\ forced' = FALSE
  /\ UNCHANGED <<bufferVars, batch, tries, round, flushed, failed, tableVars,
                 addVars, controlVars>>

SelectFlush ==
  /\ FlusherAt("select", "check")
  /\ flushCh /\ flushCh' = FALSE
  /\ forced' = TRUE
  /\ UNCHANGED <<buffer, age, accepted, ticked, batch, tries, round, flushed,
                 failed, tableVars, addVars, controlVars>>

\* Mutant of ShouldFlush: only a full buffer or a signal counts.
ShouldFlush_NoTimeout(old) == forced \/ Len(buffer) >= MaxSize

\* time.Since(lastFlow) >= flushTimeout is false before the first tick after
\* lastFlow and true from the second on; at the first it may be either, as
\* lastFlow is set some time after the tick that caused the flush.
ShouldFlush(old) == forced \/ Len(buffer) >= MaxSize \/ old

\* Mutant of TakeBatch: the buffer is not cleared with the copy.
TakeBatch_NotCleared(to) == /\ batch' = buffer /\ fpc' = to
                            /\ UNCHANGED buffer
TakeBatch(to) == /\ batch' = buffer /\ fpc' = to
                 /\ buffer' = << >>

(* checkAndFlush up to the unlock.                                         *)
CheckAndFlush ==
  /\ fpc = "check"
  /\ \E old \in CASE age = 0 -> {FALSE} [] age = 1 -> BOOLEAN [] age = 2 -> {TRUE} :
       IF buffer # << >> /\ ShouldFlush(old)
       THEN TakeBatch("write") /\ age' = 0
       ELSE fpc' = "select" /\ UNCHANGED <<batch, buffer, age>>
  /\ UNCHANGED <<flushCh, accepted, ticked, forced, tries, round, flushed,
                 failed, tableVars, addVars, controlVars>>

(* finalFlush up to the unlock.                                            *)
FinalTake ==
  /\ fpc = "final"
  /\ IF buffer = << >>
     THEN fpc' = "done" /\ UNCHANGED <<batch, buffer>>
     ELSE TakeBatch("finalWrite")
  /\ UNCHANGED <<age, flushCh, accepted, ticked, forced, tries, round, flushed,
                 failed, tableVars, addVars, controlVars>>

\* The flush of the batch is over.
FlushOver(bad) ==
  /\ batch' = << >> /\ tries' = 0 /\ round' = 0
  /\ flushed' = flushed \o batch
  /\ failed' = IF bad THEN failed \cup Range(batch) ELSE failed
  /\ fpc' = IF fpc = "write" THEN "select" ELSE "done"

\* The callback returns an error: flush counts it, finalFlush calls again.
CallbackFails ==
  IF fpc = "finalWrite" /\ round + 1 < FinalRetries
  THEN /\ round' = round + 1 /\ tries' = 0
       /\ UNCHANGED <<fpc, batch, flushed, failed>>
  ELSE FlushOver(TRUE)

\* An attempt failed: WriteMessages sleeps and tries again, or gives up.
AttemptFails ==
  IF tries + 1 < MaxRetries
  THEN tries' = tries + 1 /\ UNCHANGED <<fpc, batch, round, flushed, failed>>
  ELSE CallbackFails

AddRows == rows' = [m \in Messages |->
                      rows[m] + IF m \in Range(batch) THEN 1 ELSE 0]

\* Mutant of WriteCommits: WriteMessages does not return after a success.
WriteCommits_NoReturn ==
  /\ fpc \in {"write", "finalWrite"} /\ ~ctxDone
  /\ AddRows /\ AttemptFails
  /\ UNCHANGED <<bufferVars, ticked, forced, unclear, addVars, controlVars>>

(* The outcomes of one attempt.  pool.Begin fails once the context is      *)
(* done.                                                                   *)
WriteCommits ==
  /\ fpc \in {"write", "finalWrite"}
  /\ ~ctxDone
  /\ AddRows
  /\ FlushOver(FALSE)
  /\ UNCHANGED <<bufferVars, ticked, forced, unclear, addVars, controlVars>>

WriteFails ==
  /\ fpc \in {"write", "finalWrite"}
  /\ ctxDone \/ DbFails
  /\ AttemptFails
  /\ UNCHANGED <<bufferVars, ticked, forced, tableVars, addVars, controlVars>>

WriteUnclear ==
  /\ fpc \in {"write", "finalWrite"}
  /\ ~ctxDone /\ DbFails
  /\ AddRows
  /\ unclear' = TRUE
  /\ AttemptFails
  /\ UNCHANGED <<bufferVars, ticked, forced, addVars, controlVars>>

FlusherStep == \/ SelectEnd \/ SelectTick \/ SelectFlush
               \/ CheckAndFlush \/ FinalTake
               \/ WriteCommits \/ WriteFails \/ WriteUnclear

\* Each message is added once.
Unseen(m) == /\ m \notin Range(accepted) \cup dropped
             /\ \A a \in Adders : adding[a] # m

Next == \/ \E a \in Adders : \/ \E m \in Messages : Unseen(m) /\ AddCheck(a, m)
                             \/ AddLocked(a)
        \/ FlusherStep
        \/ TickerFires
        \/ Flush \/ Stop \/ CancelContext

Spec == Init /\ [][Next]_vars

(* The flusher is scheduled, its database calls return, time passes.       *)
Fairness == WF_vars(FlusherStep) /\ WF_vars(TickerFires)
LiveSpec == Spec /\ Fairness

-----------------------------------------------------------------------------
(* Properties.                                                             *)

\* No message gets lost or out of order inside the buffer: those Add accepted
\* are the ones already flushed, then the batch being written, then the buffer
\* (batch_buffer.go:180-188, Add runs while the batch is written).
NothingLostInside == accepted = flushed \o batch \o buffer

\* The memory is bounded: twice maxSize in the buffer, as much in the batch
\* (batch_buffer.go:120).
MemoryBounded == Len(buffer) <= 2 * MaxSize /\ Len(batch) <= 2 * MaxSize

\* A full batch is never forgotten: while the flusher may wait, its signal is
\* pending (batch_buffer.go:131-137; a signal taken before the lock covers the
\* messages added in between).
FullIsSignalled ==
  fpc \in {"select", "write"} /\ Len(buffer) >= MaxSize => flushCh

\* Unless a commit was reported as an error, the table has one row for each
\* message flushed without an error and none for the others
\* (timescale_writer.go:180-193), nor is any lost on the way.
RowsExact ==
  /\ TypeOK /\ NothingLostInside
  /\ ~unclear => \A m \in Messages :
                   rows[m] = IF m \in Range(flushed) \ failed THEN 1 ELSE 0

\* A message does not stay in the buffer for ever, unless the flusher ended; as
\* a flush takes all there is, that is to say that the buffer is emptied again
\* and again (batch_buffer.go:162-188).
EventuallyTaken == buffer # << >> ~> buffer = << >> \/ fpc = "done"
=============================================================================
