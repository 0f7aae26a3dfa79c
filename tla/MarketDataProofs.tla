--------------------------- MODULE MarketDataProofs ---------------------------
(***************************************************************************)
(* Proofs about the path of the market data.  First the data recorder, for *)
(* any number of partitions, messages, crashes and rebalances and any      *)
(* sizes and retry limits, and the two other parts of MCMarketRecorder, a  *)
(* buffer of its own and the archive.  What the buffer keeps for any       *)
(* callers is proved in BatchBufferProofs and cited here (Kept); its       *)
(* exactness does not survive a crash, so the recorder has an invariant of *)
(* its own that says where each message of a partition is and which        *)
(* messages have one row at most.  Then the two halves of data-ingestion,  *)
(* at the other end of the same topics: the WebSocket client (Feed) and    *)
(* what publishes its messages (Publisher).                                *)
(***************************************************************************)
EXTENDS MCMarketRecorder, MCMarketIngestion, SequenceTheorems, FiniteSetTheorems, TLAPS

Kept == INSTANCE BatchBufferProofs WITH Adders <- Partitions

\* What is committed was marked, what is marked was handed out, and the message that
\* Add works on is the last one handed out and not marked.
OffsetsInv ==
  \A p \in Partitions :
    /\ committed[p] <= marked[p] /\ marked[p] <= position[p]
    /\ adding[p] # NoMessage => adding[p] = <<p, position[p]>> /\ marked[p] < position[p]

Accounted(m) == m \in dropped \cup failed \cup Unwritten \cup lost \/ rows[m] > 0

\* Where each message is that was handed out.
WhereaboutsInv ==
  \A p \in Partitions : \A o \in 1..position[p] :
    Usable(<<p, o>>) => Accounted(<<p, o>>) \/ <<p, o>> = adding[p]

\* A message handed out once is in one place of the memory at most, or has its row.
OnceInv ==
  ~unclear => \A m \in Messages \ redelivered :
    /\ rows[m] <= 1
    /\ m \in Unwritten \cup SelectedAdds => rows[m] = 0
    /\ m \in Range(buffer) => m \notin Range(batch)
    /\ m \in SelectedAdds => m \notin Unwritten
    /\ m[2] > position[m[1]] => rows[m] = 0 /\ m \notin Unwritten

\* The order of the shutdown: the flusher ends after the consumer.
LifeInv ==
  /\ running
  /\ ctxDone => main \in {"cancelled", "waiting", "exited"}
  /\ main \notin {"running", "stopping"} => SelectedAdds = {}
  /\ fpc \in {"final", "finalWrite", "done"} => ctxDone
  /\ fpc \in {"finalWrite", "done"} => buffer = << >>

IInv == TypeOK /\ Kept!Sound /\ OffsetsInv /\ WhereaboutsInv /\ OnceInv /\ LifeInv

-----------------------------------------------------------------------------
\* The buffer of the proofs is the buffer of the recorder.
LEMMA SameBuffer ==
  /\ Kept!BufferAssumption
  /\ Buf!TypeOK <=> Kept!TypeOK
  /\ Buf!Init => Kept!Init
  /\ \A s : Kept!Range(s) = Range(s) /\ Buf!Range(s) = Range(s)
<1>1. Buf!BufferAssumption
  BY BufferIsAssumed
<1> QED
  BY <1>1 DEF Buf!BufferAssumption, Kept!BufferAssumption, Buf!TypeOK, Kept!TypeOK,
     Buf!FlusherPC, Kept!FlusherPC, Buf!Init, Kept!Init, Buf!InitAt, Kept!InitAt,
     Kept!Range, Buf!Range, Range

LEMMA SameProperties ==
  Kept!Sound <=> /\ Buf!TypeOK /\ Buf!NothingLostInside
                 /\ Buf!MemoryBounded /\ Buf!FullIsSignalled
<1>1. Buf!NothingLostInside <=> Kept!NothingLostInside
  BY DEF Buf!NothingLostInside, Kept!NothingLostInside
<1>2. /\ Buf!MemoryBounded <=> Kept!MemoryBounded
      /\ Buf!FullIsSignalled <=> Kept!FullIsSignalled
  BY DEF Buf!MemoryBounded, Kept!MemoryBounded, Buf!FullIsSignalled, Kept!FullIsSignalled
<1> QED
  BY <1>1, <1>2, SameBuffer DEF Kept!Sound, Kept!Ordered

LEMMA SameAdds ==
  /\ \A p \in Partitions, m \in Messages : Buf!AddCheck(p, m) => Kept!AddCheck(p, m)
  /\ \A p \in Partitions : Buf!AddLocked(p) => Kept!AddLocked(p)
  /\ Buf!Flush => Kept!Flush
  /\ Buf!CancelContext => Kept!CancelContext
  /\ Buf!TickerFires => Kept!TickerFires
  BY DEF Buf!AddCheck, Kept!AddCheck, Buf!AddLocked, Kept!AddLocked, Buf!Flush, Kept!Flush,
     Buf!CancelContext, Kept!CancelContext, Buf!TickerFires, Kept!TickerFires,
     Buf!bufferVars, Kept!bufferVars, Buf!flusherVars, Kept!flusherVars,
     Buf!tableVars, Kept!tableVars, Buf!addVars, Kept!addVars,
     Buf!controlVars, Kept!controlVars

LEMMA SameFlusher == Buf!FlusherStep => Kept!FlusherStep
  BY DEF Buf!FlusherStep, Kept!FlusherStep, Buf!SelectEnd, Kept!SelectEnd,
     Buf!SelectTick, Kept!SelectTick, Buf!SelectFlush, Kept!SelectFlush,
     Buf!FlusherAt, Kept!FlusherAt, Buf!CheckAndFlush, Kept!CheckAndFlush,
     Buf!ShouldFlush, Kept!ShouldFlush, Buf!TakeBatch, Kept!TakeBatch,
     Buf!FinalTake, Kept!FinalTake, Buf!WriteCommits, Kept!WriteCommits,
     Buf!WriteFails, Kept!WriteFails, Buf!WriteUnclear, Kept!WriteUnclear,
     Buf!AttemptFails, Kept!AttemptFails, Buf!CallbackFails, Kept!CallbackFails,
     Buf!FlushOver, Kept!FlushOver, Buf!AddRows, Kept!AddRows, Buf!Range, Kept!Range,
     Buf!bufferVars, Kept!bufferVars, Buf!flusherVars, Kept!flusherVars,
     Buf!tableVars, Kept!tableVars, Buf!addVars, Kept!addVars,
     Buf!controlVars, Kept!controlVars

-----------------------------------------------------------------------------
LEMMA MessageOf ==
  \A p \in Partitions : \A o \in 1..LogLength :
    <<p, o>> \in Messages /\ <<p, o>> # NoMessage
<1>1. NoMessage \notin Messages
  BY BufferIsAssumed DEF Buf!BufferAssumption
<1> QED
  BY <1>1 DEF Messages

\* A crash leaves a buffer that is empty, whatever the table and the counters say.
LEMMA CrashIsSound ==
  ASSUME TypeOK, Crash
  PROVE  Kept!Sound'
<1>1. Kept!BufferAssumption
  BY SameBuffer
<1>2. Kept!TypeOK'
  <2>1. Kept!TypeOK
    BY SameBuffer DEF TypeOK
  <2>2. 0 \in 0..(MaxRetries - 1) /\ 0 \in 0..(FinalRetries - 1) /\ 0 \in 0..2
    BY <1>1 DEF Kept!BufferAssumption
  <2>3. << >> \in Seq(Messages)
    BY EmptySeq
  <2> QED
    BY <2>1, <2>2, <2>3 DEF Kept!TypeOK, Kept!FlusherPC, Crash
<1>3. buffer' = << >> /\ batch' = << >> /\ flushed' = << >> /\ accepted' = << >>
  BY DEF Crash
<1>4. Kept!NothingLostInside'
  BY <1>3 DEF Kept!NothingLostInside
<1>5. Kept!MemoryBounded' /\ Kept!FullIsSignalled'
  <2>1. MaxSize \in Nat \ {0} /\ Len(<< >>) = 0
    BY <1>1, EmptySeq DEF Kept!BufferAssumption
  <2> QED
    BY <1>3, <2>1 DEF Kept!MemoryBounded, Kept!FullIsSignalled
<1> QED
  BY <1>1, <1>2, <1>4, <1>5 DEF Kept!Sound, Kept!Ordered

\* Every other step of the recorder is a step of the buffer or leaves it alone.
LEMMA BufferKept == TypeOK /\ Kept!Sound /\ [Next]_vars => Kept!Sound'
<1> SUFFICES ASSUME TypeOK, Kept!Sound, [Next]_vars
             PROVE  Kept!Sound'
  OBVIOUS
<1>1. ASSUME [Kept!AnyStep]_(Kept!vars)
      PROVE  Kept!Sound'
  BY <1>1, Kept!AnyStepSound
<1>2. ASSUME UNCHANGED bufVars
      PROVE  Kept!Sound'
  BY <1>1, <1>2 DEF bufVars, Kept!vars, Kept!bufferVars, Kept!flusherVars, Kept!tableVars,
                    Kept!addVars, Kept!controlVars
<1>3. ASSUME NEW p \in Partitions, SkipInvalid(p) \/ AddToBuffer(p) \/ Added(p)
      PROVE  Kept!Sound'
  <2>1. CASE SkipInvalid(p)
    BY <1>2, <2>1 DEF SkipInvalid
  <2>2. CASE AddToBuffer(p)
    <3>1. NextOf(p) \in Messages
      <4>1. position[p] \in 0..LogLength /\ position[p] < LogLength /\ LogLength \in Nat
        BY <2>2, RecorderAssumption DEF AddToBuffer, CanTake, TypeOK
      <4> QED
        BY <4>1 DEF NextOf, Messages
    <3> QED
      BY <1>1, <2>2, <3>1, SameAdds DEF AddToBuffer, Kept!AnyStep
  <2>3. CASE Added(p)
    BY <1>1, <2>3, SameAdds DEF Added, Kept!AnyStep
  <2> QED
    BY <1>3, <2>1, <2>2, <2>3
<1>4. CASE FlusherStep
  BY <1>1, <1>4, SameFlusher DEF FlusherStep, Kept!AnyStep
<1>5. CASE TickerFires
  BY <1>1, <1>5, SameAdds DEF TickerFires, Kept!AnyStep
<1>6. CASE Cancel \/ FlushBuffers
  BY <1>1, <1>6, SameAdds DEF Cancel, FlushBuffers, Kept!AnyStep
<1>7. CASE AutoCommit \/ Rebalance \/ Signal \/ ConsumerStopped \/ Exit \/ UNCHANGED vars
  BY <1>2, <1>7 DEF AutoCommit, Rebalance, Signal, ConsumerStopped, Exit, vars
<1> QED
  BY <1>3, <1>4, <1>5, <1>6, <1>7, CrashIsSound DEF Next, MainStep

ConsumerTypeOK ==
  /\ position \in [Partitions -> 0..LogLength]
  /\ marked \in [Partitions -> 0..LogLength]
  /\ committed \in [Partitions -> 0..LogLength]
  /\ main \in MainPC /\ consuming \in BOOLEAN
  /\ restarts \in 0..MaxRestarts
  /\ redelivered \subseteq Messages /\ lost \subseteq Messages

LEMMA NextConsumerTypeOK == TypeOK /\ [Next]_vars => ConsumerTypeOK'
<1> SUFFICES ASSUME TypeOK, [Next]_vars
             PROVE  ConsumerTypeOK'
  OBVIOUS
<1> USE DEF ConsumerTypeOK
<1>1. ConsumerTypeOK /\ LogLength \in Nat
  BY RecorderAssumption DEF TypeOK
<1>2. Unwritten \subseteq Messages
  <2>1. buffer \in Seq(Messages) /\ batch \in Seq(Messages)
    BY DEF TypeOK, Buf!TypeOK
  <2>2. \A s \in Seq(Messages) : Range(s) \subseteq Messages
    BY ElementOfSeq, LenProperties DEF Range
  <2> QED
    BY <2>1, <2>2 DEF Unwritten
<1>3. ASSUME NEW p \in Partitions, SkipInvalid(p) \/ AddToBuffer(p) \/ Added(p)
      PROVE  ConsumerTypeOK'
  <2>1. position[p] \in 0..LogLength
    BY <1>1
  <2>2. CASE SkipInvalid(p) \/ AddToBuffer(p)
    <3>1. position[p] + 1 \in 0..LogLength
      BY <1>1, <2>1, <2>2 DEF SkipInvalid, AddToBuffer, CanTake
    <3> QED
      BY <1>1, <2>2, <3>1 DEF SkipInvalid, AddToBuffer, Take, Mark
  <2>3. CASE Added(p)
    BY <1>1, <2>1, <2>3 DEF Added, Mark
  <2> QED
    BY <1>3, <2>2, <2>3
<1>4. CASE AutoCommit \/ FlusherStep \/ TickerFires \/ UNCHANGED vars
  BY <1>1, <1>4 DEF AutoCommit, FlusherStep, TickerFires, vars, consumerVars
<1>5. CASE Rebalance \/ Crash
  <2>1. restarts' \in 0..MaxRestarts
    BY <1>1, <1>5, RecorderAssumption DEF Rebalance, Crash
  <2>2. lost' \subseteq Messages
    BY <1>1, <1>2, <1>5 DEF Rebalance, Crash
  <2>3. main' \in MainPC /\ consuming' \in BOOLEAN
    BY <1>1, <1>5 DEF Rebalance, Crash, MainPC, ConsumerEnds
  <2>4. /\ committed' \in {marked, committed}
        /\ position' \in {position, marked, committed}
        /\ marked' \in {marked, committed}
        /\ redelivered' \subseteq Messages
    BY <1>1, <1>5 DEF Rebalance, Crash, ResumeFrom, ConsumerEnds
  <2> QED
    BY <1>1, <2>1, <2>2, <2>3, <2>4
<1>6. CASE MainStep
  BY <1>1, <1>2, <1>6 DEF MainStep, Signal, ConsumerStopped, Cancel, FlushBuffers, Exit,
                          MainPC, consumerVars
<1> QED
  BY <1>3, <1>4, <1>5, <1>6 DEF Next

LEMMA NextTypeOK == TypeOK /\ Kept!Sound /\ [Next]_vars => TypeOK'
<1>1. Kept!Sound' => Buf!TypeOK'
  BY SameProperties, PTL
<1> QED
  BY <1>1, BufferKept, NextConsumerTypeOK DEF TypeOK, ConsumerTypeOK

-----------------------------------------------------------------------------
\* The effect of each handler on the places a message may be in.
RowsGrow == \A m \in Messages : rows'[m] >= rows[m]

Inv == OffsetsInv /\ WhereaboutsInv /\ OnceInv /\ LifeInv

\* What of the state the three invariants on messages read.
placeVars == <<buffer, batch, rows, unclear, failed, dropped, adding>>

LEMMA PlaceTypes ==
  ASSUME TypeOK
  PROVE  /\ rows \in [Messages -> Nat] /\ LogLength \in Nat
         /\ adding \in [Partitions -> Messages \cup {NoMessage}]
         /\ NoMessage \notin Messages
         /\ \A p \in Partitions : /\ position[p] \in 0..LogLength
                                  /\ marked[p] \in 0..LogLength
                                  /\ committed[p] \in 0..LogLength
  BY BufferIsAssumed, RecorderAssumption DEF TypeOK, Buf!TypeOK, Buf!BufferAssumption

\* Who leaves the memory alone, or clears it, and makes no message new again keeps OnceInv.
LEMMA OnceStays ==
  ASSUME OnceInv, UNCHANGED <<rows, unclear>>,
         \/ UNCHANGED <<buffer, batch>>
         \/ buffer' = << >> /\ batch' = << >>,
         SelectedAdds' \subseteq SelectedAdds, redelivered \subseteq redelivered',
         \A m \in Messages \ redelivered' :
           m[2] > position'[m[1]] => m[2] > position[m[1]]
  PROVE  OnceInv'
<1>1. Range(buffer') \subseteq Range(buffer) /\ Range(batch') \subseteq Range(batch)
  BY DEF Range
<1> QED
  BY <1>1 DEF OnceInv, Unwritten

LEMMA MessageParts ==
  \A m \in Messages : /\ m[1] \in Partitions /\ m[2] \in 1..LogLength
                      /\ m = <<m[1], m[2]>>
  BY DEF Messages

\* What is committed is accounted for, as Add has not got it any more.
LEMMA CommittedIsAccounted ==
  ASSUME IInv, NEW p \in Partitions, NEW o \in 1..committed[p], Usable(<<p, o>>)
  PROVE  Accounted(<<p, o>>)
<1>0. TypeOK
  BY DEF IInv
<1>1. /\ committed[p] <= marked[p] /\ marked[p] <= position[p]
      /\ committed[p] \in Nat /\ marked[p] \in Nat /\ position[p] \in Nat
  BY <1>0, PlaceTypes DEF IInv, OffsetsInv
<1>2. o \in 1..position[p] /\ o <= marked[p]
  BY <1>1
<1>3. <<p, o>> # adding[p]
  <2>1. <<p, o>> \in Messages
    BY <1>0, <1>2, PlaceTypes DEF Messages
  <2>2. <<p, o>> = adding[p] => o = position[p] /\ marked[p] < position[p]
    BY <1>0, <2>1, PlaceTypes DEF IInv, OffsetsInv
  <2> QED
    BY <1>1, <1>2, <2>2
<1> QED
  BY <1>2, <1>3 DEF IInv, WhereaboutsInv

\* The consumer skips a message: it is not usable.
LEMMA SkipKeeps ==
  ASSUME IInv, NEW p \in Partitions, SkipInvalid(p)
  PROVE  Inv'
<1>1. /\ UNCHANGED <<placeVars, running, ctxDone, fpc, main, committed, redelivered, lost>>
      /\ position' = [position EXCEPT ![p] = position[p] + 1]
      /\ marked' = [marked EXCEPT ![p] = position[p] + 1]
      /\ adding[p] = NoMessage /\ ~Usable(<<p, position[p] + 1>>)
  BY DEF SkipInvalid, CanTake, Idle, Take, Mark, NextOf, bufVars, placeVars
<1>2. TypeOK
  BY DEF IInv
<1>3. OffsetsInv'
  BY <1>1, <1>2, PlaceTypes DEF IInv, TypeOK, OffsetsInv, placeVars
<1>4. WhereaboutsInv'
  <2> SUFFICES ASSUME NEW q \in Partitions, NEW o \in 1..position'[q], Usable(<<q, o>>)
               PROVE  Accounted(<<q, o>>) \/ <<q, o>> = adding[q]
    BY <1>1 DEF WhereaboutsInv, Accounted, placeVars, Unwritten
  <2>1. o \in 1..position[q]
    BY <1>1, <1>2, PlaceTypes DEF TypeOK
  <2> QED
    BY <2>1 DEF IInv, WhereaboutsInv
<1>5. OnceInv'
  <2>1. \A m \in Messages : m[2] > position'[m[1]] => m[2] > position[m[1]]
    BY <1>1, <1>2, PlaceTypes, MessageParts DEF TypeOK
  <2>2. SelectedAdds' = SelectedAdds
    BY <1>1 DEF placeVars, SelectedAdds
  <2> QED
    BY <1>1, <2>1, <2>2, OnceStays DEF IInv, placeVars
<1>6. LifeInv'
  BY <1>1 DEF IInv, LifeInv, placeVars, SelectedAdds
<1> QED
  BY <1>3, <1>4, <1>5, <1>6 DEF Inv

\* It gives a message to Add, which has it until it gets the mutex.
LEMMA AddKeeps ==
  ASSUME IInv, NEW p \in Partitions, AddToBuffer(p)
  PROVE  Inv'
<1> DEFINE new == <<p, position[p] + 1>>
<1>1. TypeOK /\ running
  BY DEF IInv, LifeInv
<1>2. /\ UNCHANGED <<buffer, batch, rows, unclear, failed, dropped>>
      /\ UNCHANGED <<running, ctxDone, fpc, main, committed, marked, redelivered, lost>>
      /\ position' = [position EXCEPT ![p] = position[p] + 1]
      /\ adding' = [adding EXCEPT ![p] = new]
      /\ adding[p] = NoMessage /\ main \in {"running", "stopping"}
      /\ position[p] < LogLength
  BY <1>1 DEF AddToBuffer, CanTake, Idle, Take, NextOf, Buf!AddCheck, Buf!bufferVars,
              Buf!flusherVars, Buf!tableVars, Buf!controlVars
<1>3. /\ new \in Messages /\ new[1] = p /\ new[2] = position[p] + 1
      /\ new # NoMessage
  BY <1>1, <1>2, PlaceTypes DEF Messages
<1>4. OffsetsInv'
  BY <1>1, <1>2, <1>3, PlaceTypes DEF IInv, TypeOK, OffsetsInv
<1>5. WhereaboutsInv'
  <2> SUFFICES ASSUME NEW q \in Partitions, NEW o \in 1..position'[q], Usable(<<q, o>>)
               PROVE  Accounted(<<q, o>>) \/ <<q, o>> = adding'[q]
    BY <1>2 DEF WhereaboutsInv, Accounted, Unwritten
  <2>1. o \in 1..position[q] \/ (q = p /\ o = position[p] + 1)
    BY <1>1, <1>2, PlaceTypes DEF TypeOK
  <2>2. adding'[q] = IF q = p THEN new ELSE adding[q]
    BY <1>1, <1>2, PlaceTypes
  <2>3. <<q, o>> # NoMessage
    BY <1>1, PlaceTypes, MessageOf, <2>1, <1>3
  <2> QED
    BY <1>2, <2>1, <2>2, <2>3 DEF IInv, WhereaboutsInv
<1>6. OnceInv'
  <2> SUFFICES ASSUME ~unclear, NEW m \in Messages \ redelivered
               PROVE  /\ rows[m] <= 1
                      /\ m \in Unwritten \cup SelectedAdds' => rows[m] = 0
                      /\ m \in Range(buffer) => m \notin Range(batch)
                      /\ m \in SelectedAdds' => m \notin Unwritten
                      /\ m[2] > position'[m[1]] => rows[m] = 0 /\ m \notin Unwritten
    BY <1>2 DEF OnceInv, Unwritten
  <2>1. SelectedAdds' \subseteq SelectedAdds \cup {new}
    BY <1>1, <1>2, PlaceTypes DEF SelectedAdds
  <2>2. m[2] > position'[m[1]] => m[2] > position[m[1]]
    BY <1>1, <1>2, PlaceTypes, MessageParts DEF TypeOK
  <2>3. new[2] > position[new[1]]
    BY <1>1, <1>3, PlaceTypes
  <2> HIDE DEF new
  <2> QED
    BY <2>1, <2>2, <2>3 DEF IInv, OnceInv
<1>7. LifeInv'
  BY <1>2 DEF IInv, LifeInv
<1> QED
  BY <1>4, <1>5, <1>6, <1>7 DEF Inv

\* Add returns: the message is in the buffer or counted as dropped.
LEMMA AddedKeeps ==
  ASSUME IInv, NEW p \in Partitions, Added(p)
  PROVE  Inv'
<1>1. TypeOK
  BY DEF IInv
<1>2. /\ UNCHANGED <<batch, rows, unclear, failed>>
      /\ UNCHANGED <<running, ctxDone, fpc, main, position, committed, redelivered, lost>>
      /\ adding' = [adding EXCEPT ![p] = NoMessage]
      /\ adding[p] # NoMessage
      /\ marked' \in {marked, [marked EXCEPT ![p] = position[p]]}
  BY DEF Added, Mark, Buf!AddLocked, Buf!flusherVars, Buf!tableVars, Buf!controlVars
<1>3. /\ Range(buffer') \subseteq Range(buffer) \cup {adding[p]}
      /\ Range(buffer) \subseteq Range(buffer')
      /\ dropped \subseteq dropped'
      /\ adding[p] \in Range(buffer') \cup dropped'
  <2>1. CASE dropped' = dropped \cup {adding[p]} /\ UNCHANGED buffer
    BY <2>1
  <2>2. CASE buffer' = Append(buffer, adding[p]) /\ UNCHANGED dropped
    <3>1. buffer \in Seq(Messages) /\ adding[p] \in Messages
      BY <1>1, <1>2, PlaceTypes DEF TypeOK, Buf!TypeOK
    <3>2. Range(buffer') = Range(buffer) \cup {adding[p]}
      BY <2>2, <3>1, Kept!RangeAppend, SameBuffer
    <3> QED
      BY <2>2, <3>2
  <2> QED
    BY <2>1, <2>2 DEF Added, Buf!AddLocked, Buf!bufferVars
<1>4. OffsetsInv'
  BY <1>1, <1>2, PlaceTypes DEF IInv, TypeOK, OffsetsInv
<1>5. WhereaboutsInv'
  <2> SUFFICES ASSUME NEW q \in Partitions, NEW o \in 1..position[q], Usable(<<q, o>>)
               PROVE  Accounted(<<q, o>>)' \/ <<q, o>> = adding'[q]
    BY <1>2 DEF WhereaboutsInv
  <2>1. Accounted(<<q, o>>) \/ <<q, o>> = adding[q]
    BY DEF IInv, WhereaboutsInv
  <2>2. Accounted(<<q, o>>) => Accounted(<<q, o>>)'
    BY <1>2, <1>3 DEF Accounted, Unwritten
  <2>3. CASE q = p /\ <<q, o>> = adding[q]
    BY <1>3, <2>3 DEF Accounted, Unwritten
  <2>4. CASE q # p
    BY <1>1, <1>2, <2>1, <2>2, <2>4, PlaceTypes
  <2> QED
    BY <2>1, <2>2, <2>3, <2>4
<1>6. OnceInv'
  <2> SUFFICES ASSUME ~unclear, NEW m \in Messages \ redelivered
               PROVE  /\ rows[m] <= 1
                      /\ m \in Unwritten' \cup SelectedAdds' => rows[m] = 0
                      /\ m \in Range(buffer') => m \notin Range(batch)
                      /\ m \in SelectedAdds' => m \notin Unwritten'
                      /\ m[2] > position[m[1]] => rows[m] = 0 /\ m \notin Unwritten'
    BY <1>2 DEF OnceInv
  <2>1. SelectedAdds' \subseteq SelectedAdds /\ adding[p] \in SelectedAdds
    BY <1>1, <1>2, PlaceTypes DEF SelectedAdds
  <2>2. adding[p] \notin SelectedAdds'
    \* The other partitions add messages of their own.
    BY <1>1, <1>2, PlaceTypes DEF IInv, OffsetsInv, SelectedAdds
  <2>3. adding[p][2] = position[adding[p][1]]
    BY <1>2 DEF IInv, OffsetsInv
  <2>4. ~(adding[p][2] > position[adding[p][1]])
    BY <1>1, <1>2, <2>3, PlaceTypes DEF IInv, OffsetsInv
  <2> QED
    BY <1>2, <1>3, <2>1, <2>2, <2>4 DEF IInv, OnceInv, Unwritten
<1>7. LifeInv'
  <2>1. main \in {"running", "stopping"}
    BY <1>1, <1>2, PlaceTypes DEF IInv, LifeInv, SelectedAdds
  <2>2. ~ctxDone
    BY <2>1 DEF IInv, LifeInv
  <2> QED
    BY <1>2, <2>1, <2>2 DEF IInv, LifeInv
<1> QED
  BY <1>4, <1>5, <1>6, <1>7 DEF Inv

\* Rebalances and crashes hand out again what follows the offsets they resume from.
LEMMA ResumeFresh ==
  ASSUME TypeOK, NEW offsets \in [Partitions -> 0..LogLength], ResumeFrom(offsets)
  PROVE  /\ redelivered \subseteq redelivered'
         /\ \A m \in Messages \ redelivered' :
              m[2] > position'[m[1]] => m[2] > position[m[1]]
  BY PlaceTypes, MessageParts DEF ResumeFrom

LEMMA RebalanceKeeps ==
  ASSUME IInv, Rebalance
  PROVE  Inv'
<1>1. TypeOK
  BY DEF IInv
<1>2. /\ UNCHANGED <<placeVars, running, ctxDone, fpc, main, lost>>
      /\ \A p \in Partitions : adding[p] = NoMessage
      /\ committed' \in {marked, committed}
      /\ \/ ResumeFrom(committed')
         \/ UNCHANGED <<position, marked, redelivered>>
  BY DEF Rebalance, ConsumerEnds, Idle, bufVars, placeVars
<1>3. committed' \in [Partitions -> 0..LogLength]
  BY <1>1, <1>2 DEF TypeOK
<1>4. /\ \A p \in Partitions : /\ committed'[p] <= marked'[p] /\ marked'[p] <= position'[p]
                               /\ position'[p] <= position[p]
      /\ \A p \in Partitions : position'[p] \in 0..LogLength
  BY <1>1, <1>2, <1>3, PlaceTypes DEF IInv, OffsetsInv, ResumeFrom
<1>5. /\ redelivered \subseteq redelivered'
      /\ \A m \in Messages \ redelivered' : m[2] > position'[m[1]] => m[2] > position[m[1]]
  BY <1>1, <1>2, <1>3, ResumeFresh
<1>6. OffsetsInv'
  BY <1>2, <1>4 DEF OffsetsInv, placeVars
<1>7. WhereaboutsInv'
  <2> SUFFICES ASSUME NEW q \in Partitions, NEW o \in 1..position'[q], Usable(<<q, o>>)
               PROVE  Accounted(<<q, o>>) \/ <<q, o>> = adding[q]
    BY <1>2 DEF WhereaboutsInv, Accounted, placeVars, Unwritten
  <2>1. o \in 1..position[q]
    BY <1>1, <1>4, PlaceTypes
  <2> QED
    BY <2>1 DEF IInv, WhereaboutsInv
<1>8. OnceInv'
  BY <1>2, <1>5, OnceStays DEF IInv, placeVars, SelectedAdds
<1>9. LifeInv'
  BY <1>2 DEF IInv, LifeInv, placeVars, SelectedAdds
<1> QED
  BY <1>6, <1>7, <1>8, <1>9 DEF Inv

\* A crash takes the memory with it: what it held is lost, what Add worked on was not
\* marked and comes again.
LEMMA CrashKeeps ==
  ASSUME IInv, Crash
  PROVE  Inv'
<1>1. TypeOK
  BY DEF IInv
<1>2. /\ UNCHANGED <<rows, unclear, failed, dropped, committed>>
      /\ buffer' = << >> /\ batch' = << >> /\ lost' = lost \cup Unwritten
      /\ adding' = [p \in Partitions |-> NoMessage]
      /\ running' /\ ~ctxDone' /\ fpc' = "select" /\ main' = "running"
      /\ ResumeFrom(committed) /\ position' = committed /\ marked' = committed
  BY DEF Crash, ResumeFrom
<1>3. committed \in [Partitions -> 0..LogLength]
  BY <1>1 DEF TypeOK
<1>4. OffsetsInv'
  BY <1>1, <1>2, PlaceTypes DEF OffsetsInv
<1>5. WhereaboutsInv'
  BY <1>2, CommittedIsAccounted DEF WhereaboutsInv, Accounted, Unwritten
<1>6. OnceInv'
  BY <1>1, <1>2, <1>3, ResumeFresh, OnceStays DEF IInv, SelectedAdds
<1>7. LifeInv'
  BY <1>2 DEF LifeInv
<1> QED
  BY <1>4, <1>5, <1>6, <1>7 DEF Inv

-----------------------------------------------------------------------------
\* What the flusher does to the places: it takes the buffer, ends the flush of a batch
\* with its rows or as failed, adds rows of a commit that it takes for a failure, or
\* does nothing.
FlusherTakes == /\ Range(batch) = {} /\ Range(buffer') = {}
                /\ Range(batch') = Range(buffer)
                /\ UNCHANGED <<failed, rows, unclear>>
FlusherWrites == /\ Range(batch') = {} /\ UNCHANGED <<buffer, failed, unclear>>
                 /\ \A m \in Messages :
                      rows'[m] = rows[m] + IF m \in Range(batch) THEN 1 ELSE 0
FlusherGivesUp == /\ Range(batch') = {} /\ UNCHANGED <<buffer, rows, unclear>>
                  /\ failed' = failed \cup Range(batch)
FlusherRests == UNCHANGED <<buffer, batch, failed, rows, unclear>>
FlusherMisled == /\ unclear' /\ RowsGrow
                 /\ UNCHANGED buffer
                 /\ \/ UNCHANGED <<batch, failed>>
                    \/ Range(batch') = {} /\ failed' = failed \cup Range(batch)

LEMMA FlusherEffect ==
  ASSUME TypeOK, Buf!FlusherStep
  PROVE  /\ \/ FlusherTakes \/ FlusherWrites \/ FlusherGivesUp
            \/ FlusherRests \/ FlusherMisled
         /\ UNCHANGED <<adding, dropped, running, ctxDone>>
<1>1. Kept!TypeOK /\ Kept!FlusherStep
  BY SameBuffer, SameFlusher DEF TypeOK
<1>2. Range(<< >>) = {}
  BY DEF Range
<1>3. Kept!AddRows => /\ RowsGrow
                      /\ \A m \in Messages :
                           rows'[m] = rows[m] + IF m \in Range(batch) THEN 1 ELSE 0
  BY PlaceTypes, SameBuffer DEF Kept!AddRows, RowsGrow
<1>4. \A bad \in BOOLEAN : Kept!Over(bad) =>
        /\ Range(batch') = {} /\ UNCHANGED buffer
        /\ failed' = IF bad THEN failed \cup Range(batch) ELSE failed
  BY <1>2, SameBuffer DEF Kept!Over, Kept!FlushOver
<1>5. /\ UNCHANGED <<adding, dropped, running, ctxDone>>
      /\ \/ Kept!Taken /\ UNCHANGED Kept!tableVars
         \/ Kept!Unmoved /\ UNCHANGED Kept!tableVars
         \/ Kept!Unmoved /\ unclear' /\ Kept!AddRows
         \/ Kept!Over(FALSE) /\ Kept!AddRows /\ UNCHANGED unclear
         \/ Kept!Over(TRUE) /\ UNCHANGED Kept!tableVars
         \/ Kept!Over(TRUE) /\ unclear' /\ Kept!AddRows
  BY <1>1, Kept!FlusherMoves DEF Kept!addVars, Kept!controlVars
<1>6. Kept!Taken /\ UNCHANGED Kept!tableVars => FlusherTakes
  BY <1>2 DEF Kept!Taken, Kept!tableVars, FlusherTakes
<1>7. /\ Kept!Unmoved /\ UNCHANGED Kept!tableVars => FlusherRests
      /\ Kept!Unmoved /\ unclear' /\ Kept!AddRows => FlusherMisled
  BY <1>3 DEF Kept!Unmoved, Kept!tableVars, FlusherRests, FlusherMisled
<1>8. /\ Kept!Over(FALSE) /\ Kept!AddRows /\ UNCHANGED unclear => FlusherWrites
      /\ Kept!Over(TRUE) /\ UNCHANGED Kept!tableVars => FlusherGivesUp
      /\ Kept!Over(TRUE) /\ unclear' /\ Kept!AddRows => FlusherMisled
  BY <1>3, <1>4 DEF Kept!tableVars, FlusherWrites, FlusherGivesUp, FlusherMisled
<1> QED
  BY <1>5, <1>6, <1>7, <1>8

\* Where the flusher goes: to its end only once the context is done, and with a buffer
\* that it found or left empty.
LEMMA FlusherEnds ==
  ASSUME LifeInv, Buf!FlusherStep
  PROVE  /\ fpc' \in {"final", "finalWrite", "done"} => ctxDone
         /\ fpc' \in {"finalWrite", "done"} => buffer' = << >>
<1> USE DEF LifeInv, Buf!FlusherAt, Buf!bufferVars
<1>1. CASE Buf!SelectEnd \/ Buf!SelectTick \/ Buf!SelectFlush
  BY <1>1 DEF Buf!SelectEnd, Buf!SelectTick, Buf!SelectFlush
<1>2. CASE Buf!CheckAndFlush
  BY <1>2 DEF Buf!CheckAndFlush, Buf!TakeBatch
<1>3. CASE Buf!FinalTake
  BY <1>3 DEF Buf!FinalTake, Buf!TakeBatch
<1>4. CASE Buf!WriteCommits \/ Buf!WriteFails \/ Buf!WriteUnclear
  <2>1. fpc \in {"write", "finalWrite"} /\ UNCHANGED buffer
    BY <1>4 DEF Buf!WriteCommits, Buf!WriteFails, Buf!WriteUnclear
  <2>2. fpc' = fpc \/ fpc' = IF fpc = "write" THEN "select" ELSE "done"
    BY <1>4 DEF Buf!WriteCommits, Buf!WriteFails, Buf!WriteUnclear, Buf!AttemptFails,
                Buf!CallbackFails, Buf!FlushOver
  <2> QED
    BY <2>1, <2>2
<1> QED
  BY <1>1, <1>2, <1>3, <1>4 DEF Buf!FlusherStep

LEMMA FlusherKeeps ==
  ASSUME IInv, FlusherStep
  PROVE  Inv'
<1>1. TypeOK /\ Buf!FlusherStep
  BY DEF IInv, FlusherStep
<1>2. /\ UNCHANGED <<adding, dropped, running, ctxDone, main, position, marked, committed,
                     redelivered, lost>>
      /\ FlusherTakes \/ FlusherWrites \/ FlusherGivesUp \/ FlusherRests \/ FlusherMisled
  BY <1>1, FlusherEffect DEF FlusherStep, consumerVars
<1>3. OffsetsInv'
  BY <1>2 DEF IInv, OffsetsInv
<1>4. ASSUME NEW m \in Messages, Accounted(m)
      PROVE  Accounted(m)'
  <2>1. rows[m] \in Nat /\ rows'[m] \in Nat
    BY <1>1, NextTypeOK, PlaceTypes DEF IInv, Next, TypeOK, Buf!TypeOK
  <2>2. rows'[m] >= rows[m]
    BY <1>2, <2>1 DEF FlusherTakes, FlusherWrites, FlusherGivesUp, FlusherRests,
                      FlusherMisled, RowsGrow
  <2>3. CASE m \notin Range(batch) \/ rows'[m] > 0
    BY <1>2, <1>4, <2>1, <2>2, <2>3 DEF Accounted, Unwritten, FlusherTakes, FlusherWrites,
       FlusherGivesUp, FlusherRests, FlusherMisled
  <2>4. CASE m \in Range(batch)
    BY <1>2, <1>4, <2>1, <2>4 DEF Accounted, Unwritten, FlusherTakes, FlusherWrites,
       FlusherGivesUp, FlusherRests, FlusherMisled
  <2> QED
    BY <2>3, <2>4
<1>5. WhereaboutsInv'
  <2> SUFFICES ASSUME NEW q \in Partitions, NEW o \in 1..position[q], Usable(<<q, o>>)
               PROVE  Accounted(<<q, o>>)' \/ <<q, o>> = adding[q]
    BY <1>2 DEF WhereaboutsInv
  <2>1. <<q, o>> \in Messages
    BY <1>1, PlaceTypes DEF Messages
  <2> QED
    BY <1>4, <2>1 DEF IInv, WhereaboutsInv
<1>6. OnceInv'
  <2> SUFFICES ASSUME ~unclear', NEW m \in Messages \ redelivered
               PROVE  /\ rows'[m] <= 1
                      /\ m \in Unwritten' \cup SelectedAdds => rows'[m] = 0
                      /\ m \in Range(buffer') => m \notin Range(batch')
                      /\ m \in SelectedAdds => m \notin Unwritten'
                      /\ m[2] > position[m[1]] => rows'[m] = 0 /\ m \notin Unwritten'
    BY <1>2 DEF OnceInv, SelectedAdds
  <2>1. ~unclear
    BY <1>2 DEF FlusherTakes, FlusherWrites, FlusherGivesUp, FlusherRests, FlusherMisled
  <2>2. /\ rows[m] <= 1
        /\ m \in Unwritten \cup SelectedAdds => rows[m] = 0
        /\ m \in Range(buffer) => m \notin Range(batch)
        /\ m \in SelectedAdds => m \notin Unwritten
        /\ m[2] > position[m[1]] => rows[m] = 0 /\ m \notin Unwritten
    BY <2>1 DEF IInv, OnceInv
  <2>3. rows[m] \in Nat
    BY <1>1, PlaceTypes
  <2>4. CASE FlusherWrites
    BY <2>2, <2>3, <2>4 DEF FlusherWrites, Unwritten
  <2>5. CASE FlusherTakes \/ FlusherGivesUp \/ FlusherRests
    BY <2>2, <2>5 DEF FlusherTakes, FlusherGivesUp, FlusherRests, Unwritten
  <2>6. CASE FlusherMisled
    BY <2>6 DEF FlusherMisled
  <2> QED
    BY <1>2, <2>4, <2>5, <2>6
<1>7. LifeInv'
  BY <1>1, <1>2, FlusherEnds DEF IInv, LifeInv, SelectedAdds
<1> QED
  BY <1>3, <1>5, <1>6, <1>7 DEF Inv

\* The other steps move no message.
LEMMA OthersKeep ==
  ASSUME IInv, AutoCommit \/ TickerFires \/ MainStep \/ UNCHANGED vars
  PROVE  Inv'
<1>1. TypeOK
  BY DEF IInv
<1>2. /\ UNCHANGED <<placeVars, running, fpc, position, marked, redelivered>>
      /\ committed' \in {committed, marked}
      /\ lost \subseteq lost'
  BY DEF AutoCommit, TickerFires, MainStep, Signal, ConsumerStopped, Cancel, FlushBuffers,
         Exit, vars, bufVars, placeVars, consumerVars, Buf!TickerFires, Buf!CancelContext,
         Buf!Flush, Buf!bufferVars, Buf!flusherVars, Buf!tableVars, Buf!addVars,
         Buf!controlVars
<1>3. OffsetsInv'
  BY <1>1, <1>2, PlaceTypes DEF IInv, OffsetsInv, placeVars
<1>4. WhereaboutsInv'
  BY <1>2 DEF IInv, WhereaboutsInv, Accounted, Unwritten, placeVars
<1>5. OnceInv'
  BY <1>2, OnceStays DEF IInv, placeVars, SelectedAdds
<1>6. LifeInv'
  <2>1. SelectedAdds' = SelectedAdds
    BY <1>2 DEF placeVars, SelectedAdds
  <2>2. CASE AutoCommit \/ TickerFires \/ UNCHANGED vars
    <3>1. UNCHANGED <<ctxDone, main>>
      BY <2>2 DEF AutoCommit, TickerFires, vars, bufVars, Buf!TickerFires, Buf!controlVars
    <3> QED
      BY <1>2, <2>1, <3>1 DEF IInv, LifeInv, placeVars
  <2>3. CASE MainStep
    <3>1. \/ UNCHANGED ctxDone /\ main = "running" /\ main' = "stopping"
          \/ /\ UNCHANGED ctxDone /\ main = "stopping" /\ main' = "consumerStopped"
             /\ SelectedAdds = {}
          \/ main = "consumerStopped" /\ main' = "cancelled"
          \/ UNCHANGED ctxDone /\ main = "cancelled" /\ main' = "waiting"
          \/ UNCHANGED ctxDone /\ main = "waiting" /\ main' = "exited"
      BY <2>3 DEF MainStep, Signal, ConsumerStopped, Cancel, FlushBuffers, Exit, Idle,
         SelectedAdds, bufVars, Buf!Flush, Buf!controlVars
    <3>2. fpc \in {"final", "finalWrite", "done"} => ctxDone'
      BY <2>3, <3>1 DEF IInv, LifeInv, MainStep, Signal, ConsumerStopped, Cancel,
         Buf!CancelContext
    <3> QED
      BY <1>2, <2>1, <3>1, <3>2 DEF IInv, LifeInv, placeVars
  <2> QED
    BY <2>2, <2>3
<1> QED
  BY <1>3, <1>4, <1>5, <1>6 DEF Inv

LEMMA InitIInv == Init => IInv
<1> SUFFICES ASSUME Init
             PROVE  IInv
  OBVIOUS
<1>1. Kept!Sound
  BY SameBuffer, Kept!InitOrdered DEF Init
<1>2. LogLength \in Nat /\ MaxRestarts \in Nat
  BY RecorderAssumption
<1>3. TypeOK
  BY <1>1, <1>2, SameProperties DEF Init, TypeOK, MainPC
<1>4. /\ buffer = << >> /\ batch = << >> /\ running /\ ~ctxDone /\ fpc = "select"
      /\ adding = [p \in Partitions |-> NoMessage] /\ rows = [m \in Messages |-> 0]
  BY DEF Init, Buf!Init, Buf!InitAt
<1>5. OffsetsInv /\ WhereaboutsInv
  BY DEF Init, Buf!Init, Buf!InitAt, OffsetsInv, WhereaboutsInv
<1>6. OnceInv /\ LifeInv
  BY <1>4 DEF Init, OnceInv, LifeInv, Unwritten, SelectedAdds, Range
<1> QED
  BY <1>1, <1>3, <1>5, <1>6 DEF IInv

LEMMA NextIInv == IInv /\ [Next]_vars => IInv'
<1> SUFFICES ASSUME IInv, [Next]_vars
             PROVE  IInv'
  OBVIOUS
<1>1. TypeOK' /\ Kept!Sound'
  BY NextTypeOK, BufferKept DEF IInv
<1>2. Inv'
  BY SkipKeeps, AddKeeps, AddedKeeps, FlusherKeeps, OthersKeep, RebalanceKeeps, CrashKeeps
     DEF Next
<1> QED
  BY <1>1, <1>2 DEF IInv, Inv

LEMMA IInvIsEnough == IInv => EveryOffsetAccounted /\ BufferIsSound
<1> SUFFICES ASSUME IInv
             PROVE  EveryOffsetAccounted /\ BufferIsSound
  OBVIOUS
<1>1. TypeOK
  BY DEF IInv
<1>2. \A p \in Partitions : \A o \in 1..committed[p] :
        Usable(<<p, o>>) => Accounted(<<p, o>>)
  BY CommittedIsAccounted
<1>3. ~unclear => \A m \in Messages : rows[m] > 1 => m \in redelivered
  BY <1>1, PlaceTypes DEF IInv, OnceInv
<1>4. fpc = "done" => buffer = << >> /\ SelectedAdds = {}
  BY DEF IInv, LifeInv
<1>5. Buf!NothingLostInside /\ Buf!MemoryBounded /\ Buf!FullIsSignalled
  BY SameProperties DEF IInv
<1> QED
  BY <1>1, <1>2, <1>3, <1>4, <1>5 DEF EveryOffsetAccounted, BufferIsSound, Accounted

\* Every committed offset is accounted for and no message handed out once has two rows,
\* for any number of partitions, messages, rebalances and crashes and wherever they
\* strike (market_consumer.go:140-183, consumer.go:169-173).
THEOREM EveryOffsetAccountedInvariant == Spec => []EveryOffsetAccounted
  BY InitIInv, NextIInv, IInvIsEnough, PTL DEF Spec

\* The buffer keeps its guarantees through rebalances, crashes and the shutdown, and its
\* flusher ends after the last Add (main.go:272, batch_buffer.go:120-137).
THEOREM BufferIsSoundInvariant == Spec => []BufferIsSound
  BY InitIInv, NextIInv, IInvIsEnough, PTL DEF Spec

-----------------------------------------------------------------------------
(* The part "buffer": a BatchBuffer whose callers add each message once.   *)

AloneKept == INSTANCE BatchBufferProofs
  WITH Messages <- BufMessages, MaxSize <- BufMaxSize, MaxRetries <- BufMaxRetries,
       FinalRetries <- BufFinalRetries, DbFails <- TRUE,
       buffer <- bBuffer, flushCh <- bFlushCh, ticked <- bTicked, age <- bAge,
       running <- bRunning, ctxDone <- bCtxDone, fpc <- bFpc, forced <- bForced,
       batch <- bBatch, tries <- bTries, round <- bRound, adding <- bAdding,
       rows <- bRows, accepted <- bAccepted, flushed <- bFlushed, failed <- bFailed,
       dropped <- bDropped, unclear <- bUnclear

LEMMA AloneAssumption == AloneKept!BufferAssumption
  BY InstancesAssumption DEF Alone!BufferAssumption, AloneKept!BufferAssumption

LEMMA AloneInit == MCInit => AloneKept!IInv
<1>1. /\ "select" \in {"select", "done"} /\ "done" \in {"select", "done"}
      /\ 0 \in 0..2 /\ 2 \in 0..2 /\ TRUE \in BOOLEAN /\ FALSE \in BOOLEAN
  OBVIOUS
<1>2. /\ Alone!Init => AloneKept!InitAt("select", FALSE, 0)
      /\ Alone!InitAt("done", TRUE, 2) => AloneKept!InitAt("done", TRUE, 2)
  BY DEF Alone!Init, Alone!InitAt, AloneKept!InitAt
<1>3. AloneKept!InitAt("select", FALSE, 0) => AloneKept!IInv
  BY <1>1, AloneAssumption, AloneKept!InitAtOrdered
<1>4. AloneKept!InitAt("done", TRUE, 2) => AloneKept!IInv
  BY <1>1, AloneAssumption, AloneKept!InitAtOrdered
<1> QED
  BY <1>2, <1>3, <1>4 DEF MCInit

LEMMA AloneNext == Alone!Next => AloneKept!Next
  BY DEF Alone!Next, AloneKept!Next, Alone!Unseen, AloneKept!Unseen,
     Alone!AddCheck, AloneKept!AddCheck, Alone!AddLocked, AloneKept!AddLocked,
     Alone!Flush, AloneKept!Flush, Alone!Stop, AloneKept!Stop,
     Alone!CancelContext, AloneKept!CancelContext,
     Alone!TickerFires, AloneKept!TickerFires,
     Alone!FlusherStep, AloneKept!FlusherStep, Alone!SelectEnd, AloneKept!SelectEnd,
     Alone!SelectTick, AloneKept!SelectTick, Alone!SelectFlush, AloneKept!SelectFlush,
     Alone!FlusherAt, AloneKept!FlusherAt, Alone!CheckAndFlush, AloneKept!CheckAndFlush,
     Alone!ShouldFlush, AloneKept!ShouldFlush, Alone!TakeBatch, AloneKept!TakeBatch,
     Alone!FinalTake, AloneKept!FinalTake, Alone!WriteCommits, AloneKept!WriteCommits,
     Alone!WriteFails, AloneKept!WriteFails, Alone!WriteUnclear, AloneKept!WriteUnclear,
     Alone!AttemptFails, AloneKept!AttemptFails,
     Alone!CallbackFails, AloneKept!CallbackFails, Alone!FlushOver, AloneKept!FlushOver,
     Alone!AddRows, AloneKept!AddRows, Alone!Range, AloneKept!Range,
     Alone!bufferVars, AloneKept!bufferVars, Alone!flusherVars, AloneKept!flusherVars,
     Alone!tableVars, AloneKept!tableVars, Alone!addVars, AloneKept!addVars,
     Alone!controlVars, AloneKept!controlVars

LEMMA AloneRowsExact == AloneKept!IInv => RowsExact
<1>1. AloneKept!IInv => AloneKept!RowsExact
  BY DEF AloneKept!IInv, AloneKept!Ordered, AloneKept!RowsInv, AloneKept!RowsExact
<1> QED
  BY <1>1 DEF RowsExact, Alone!RowsExact, AloneKept!RowsExact, Alone!TypeOK,
     AloneKept!TypeOK, Alone!FlusherPC, AloneKept!FlusherPC, Alone!Range, AloneKept!Range,
     Alone!NothingLostInside, AloneKept!NothingLostInside

\* The table has exactly one row for each message whose flush succeeded and none for the
\* others, unless a commit was reported as an error, and nothing is lost inside, for any
\* number of goroutines that add and any limits (batch_buffer.go:160-230,
\* timescale_writer.go:148-226).
THEOREM RowsExactInvariant == MCSpec => []RowsExact
<1>1. /\ AloneKept!IInv
      /\ [RecorderStep \/ BufferStep \/ ArchiveStep]_<<part, vars, aloneVars, archiveVars>>
      => AloneKept!IInv'
  <2> SUFFICES ASSUME AloneKept!IInv,
                      [RecorderStep \/ BufferStep \/ ArchiveStep]_<<part, vars, aloneVars,
                                                                   archiveVars>>
               PROVE  AloneKept!IInv'
    OBVIOUS
  <2>1. Alone!Next \/ UNCHANGED aloneVars
    BY DEF RecorderStep, BufferStep, ArchiveStep
  <2>2. [AloneKept!Next]_(AloneKept!vars)
    BY <2>1, AloneNext DEF aloneVars, AloneKept!vars, AloneKept!bufferVars,
       AloneKept!flusherVars, AloneKept!tableVars, AloneKept!addVars, AloneKept!controlVars
  <2> QED
    BY <2>2, AloneKept!NextIInv
<1> QED
  BY <1>1, AloneInit, AloneRowsExact, PTL DEF MCSpec

-----------------------------------------------------------------------------
(* The part "archive".  An object at a key is of a call that began in the  *)
(* key's second and has records of the key's kind, and the keys of uploads *)
(* that succeeded are never empty again.                                   *)

Keys == Archive!Kinds \X Archive!Seconds
Done(c, k) == sPc[c] = "uploaded" \/ (sPc[c] = "orderbook" /\ k = "tick")

OwnersInv ==
  \A key \in Keys : sObject[key] # Nobody =>
    /\ sPc[sObject[key]] # "idle"
    /\ sStamp[sObject[key]] = key[2]
    /\ key[1] \in Batches[sObject[key]]
PlacesInv == \A c \in Calls : sPc[c] \in Archive!Kinds => sPc[c] \in Batches[c]
PresentInv ==
  \A c \in Calls : \A k \in Batches[c] : Done(c, k) => sObject[<<k, sStamp[c]>>] # Nobody

ArchiveInv == Archive!S3Assumption /\ Archive!TypeOK /\ OwnersInv /\ PlacesInv /\ PresentInv

\* Where a call may go next is a place of its batch.
LEMMA AfterIsOwn ==
  ASSUME Archive!S3Assumption, NEW c \in Calls
  PROVE  /\ Archive!AfterTicks(c) \in {"orderbook", "uploaded"}
         /\ Archive!AfterTicks(c) = "orderbook" <=> "orderbook" \in Batches[c]
         /\ Archive!AfterCheck(c) \in Archive!Kinds \cup {"uploaded"}
         /\ Archive!AfterCheck(c) \in Archive!Kinds => Archive!AfterCheck(c) \in Batches[c]
         /\ Archive!AfterCheck(c) = "tick" <=> "tick" \in Batches[c]
         /\ Archive!AfterCheck(c) = "uploaded" => Batches[c] = {}
<1>1. Batches[c] \subseteq {"tick", "orderbook"}
  BY DEF Archive!S3Assumption, Archive!Kinds
<1>2. QED
  BY <1>1 DEF Archive!AfterTicks, Archive!AfterCheck, Archive!Kinds

\* The first states satisfy the invariant.
LEMMA ArchiveInvInit == Archive!S3Assumption /\ Archive!Init => ArchiveInv
<1> SUFFICES ASSUME Archive!S3Assumption, Archive!Init PROVE ArchiveInv
  OBVIOUS
<1>1. 0 \in Archive!Seconds /\ 0 \in 0..UploadRetries - 1
  BY DEF Archive!S3Assumption, Archive!Seconds
<1>2. QED
  BY <1>1 DEF Archive!S3Assumption, Archive!Init, ArchiveInv, Archive!TypeOK, OwnersInv,
     PlacesInv, PresentInv,
     Keys, Done, Archive!Kinds, Archive!Returned

\* A call begins: it took no key before, so its new time contradicts no object.
LEMMA BeginKeeps ==
  ASSUME ArchiveInv, NEW c \in Calls, Archive!WriteMessages(c)
  PROVE  ArchiveInv'
<1> USE DEF ArchiveInv
<1>1. CASE sClosed
  BY <1>1 DEF Archive!S3Assumption, Archive!WriteMessages, Archive!Goes, Archive!TypeOK,
     OwnersInv, PlacesInv, PresentInv,
     Keys, Done, Archive!Kinds, Archive!Returned
<1>2. CASE ~sClosed
  <2>1. /\ sPc[c] = "idle" /\ sPc' = [sPc EXCEPT ![c] = Archive!AfterCheck(c)]
        /\ sTries' = [sTries EXCEPT ![c] = 0]
        /\ sStamp' = [sStamp EXCEPT ![c] = sNow] /\ UNCHANGED <<sNow, sClosed, sObject>>
    BY <1>2 DEF Archive!WriteMessages, Archive!Goes
  <2>2. Archive!TypeOK'
    BY <2>1, AfterIsOwn DEF Archive!S3Assumption, Archive!TypeOK, Archive!Returned
  <2>3. OwnersInv'
    <3> SUFFICES ASSUME NEW key \in Keys, sObject[key] # Nobody
                 PROVE  /\ sPc'[sObject[key]] # "idle"
                        /\ sStamp'[sObject[key]] = key[2]
                        /\ key[1] \in Batches[sObject[key]]
      BY <2>1 DEF OwnersInv
    <3>1. sObject[key] \in Calls /\ sObject[key] # c
      BY <2>1 DEF OwnersInv, Archive!TypeOK, Keys
    <3>2. QED
      BY <2>1, <3>1 DEF OwnersInv, Archive!TypeOK
  <2>4. PlacesInv'
    BY <2>1, AfterIsOwn DEF PlacesInv, Archive!TypeOK
  <2>5. PresentInv'
    <3> SUFFICES ASSUME NEW d \in Calls, NEW k \in Batches[d], Done(d, k)'
                 PROVE  sObject[<<k, sStamp'[d]>>] # Nobody
      BY <2>1 DEF PresentInv
    <3>1. d # c
      <4>1. ASSUME d = c PROVE FALSE
        <5>1. sPc'[c] = Archive!AfterCheck(c)
          BY <2>1 DEF Archive!TypeOK
        <5>2. \/ Archive!AfterCheck(c) = "uploaded"
              \/ Archive!AfterCheck(c) = "orderbook" /\ k = "tick"
          BY <4>1, <5>1 DEF Done
        <5>3. QED
          BY <4>1, <5>2, AfterIsOwn
      <4>2. QED
        BY <4>1
    <3>2. QED
      BY <2>1, <3>1 DEF PresentInv, Archive!TypeOK, Done
  <2>6. QED
    BY <2>2, <2>3, <2>4, <2>5
<1>3. QED
  BY <1>1, <1>2

\* A call stores its object: every key keeps or gets an owner.
LEMMA PutKeeps ==
  ASSUME ArchiveInv, NEW c \in Calls, sPc[c] \in Archive!Kinds, Archive!Puts(c)
  PROVE  /\ sObject' \in [Keys -> Calls \cup {Nobody}]
         /\ sObject'[<<sPc[c], sStamp[c]>>] = c
         /\ \A key \in Keys : key # <<sPc[c], sStamp[c]>> => sObject'[key] = sObject[key]
  BY DEF ArchiveInv, Archive!TypeOK, Archive!Puts, Archive!generateS3Key, Keys

\* A failed attempt leads to another one or out of the call.
LEMMA FailedGoes ==
  ASSUME Archive!S3Assumption, Archive!TypeOK, NEW c \in Calls, sPc[c] \in Archive!Kinds,
         Archive!AttemptFailed(c)
  PROVE  /\ sPc' = sPc \/ sPc' = [sPc EXCEPT ![c] = "failed"]
         /\ sTries' \in [Calls -> 0..UploadRetries - 1]
<1>1. CASE sTries[c] + 1 < UploadRetries
  BY <1>1 DEF Archive!S3Assumption, Archive!AttemptFailed, Archive!TypeOK
<1>2. CASE ~(sTries[c] + 1 < UploadRetries)
  BY <1>2 DEF Archive!S3Assumption, Archive!AttemptFailed, Archive!Goes, Archive!TypeOK
<1>3. QED
  BY <1>1, <1>2

\* Every step of an upload keeps the invariant: the call moves from its kind to a place
\* where what it uploaded is present, or fails.
LEMMA UploadKeeps ==
  ASSUME ArchiveInv, NEW c \in Calls,
         Archive!EncodingFails(c) \/ Archive!Uploaded(c) \/ Archive!UploadFails(c)
  PROVE  ArchiveInv'
<1> USE DEF ArchiveInv
<1> DEFINE key0 == <<sPc[c], sStamp[c]>>
<1>1. sPc[c] \in Archive!Kinds /\ sPc[c] \in Batches[c] /\ UNCHANGED <<sNow, sClosed, sStamp>>
  BY DEF Archive!EncodingFails, Archive!Uploaded, Archive!UploadFails, PlacesInv
<1>2. /\ key0 \in Keys /\ key0[1] = sPc[c] /\ key0[2] = sStamp[c]
  BY <1>1 DEF Archive!TypeOK, Keys
<1>3. /\ sObject' \in [Keys -> Calls \cup {Nobody}]
      /\ \A key \in Keys : sObject'[key] = sObject[key] \/ (key = key0 /\ sObject'[key] = c)
      /\ Archive!Uploaded(c) => sObject'[key0] = c
  <2>0. Archive!Uploaded(c) => sObject'[key0] = c
    BY <1>1, PutKeeps DEF Archive!Uploaded
  <2>1. CASE Archive!EncodingFails(c)
    BY <2>0, <2>1 DEF Archive!EncodingFails, Archive!TypeOK, Keys
  <2>2. CASE Archive!Uploaded(c)
    BY <2>2, <1>1, PutKeeps DEF Archive!Uploaded
  <2>3. CASE Archive!UploadFails(c)
    <3>1. CASE UNCHANGED sObject
      BY <2>0, <3>1 DEF Archive!TypeOK, Keys
    <3>2. CASE Archive!Puts(c)
      BY <3>2, <1>1, PutKeeps
    <3>3. QED
      BY <2>3, <3>1, <3>2 DEF Archive!UploadFails
  <2>4. QED
    BY <2>1, <2>2, <2>3
<1>4. /\ \/ sPc' = sPc
         \/ sPc' = [sPc EXCEPT ![c] = "failed"]
         \/ /\ Archive!Uploaded(c)
            /\ sPc' = [sPc EXCEPT ![c] = IF sPc[c] = "tick" THEN Archive!AfterTicks(c)
                                                          ELSE "uploaded"]
      /\ sTries' \in [Calls -> 0..UploadRetries - 1]
  <2>1. CASE Archive!EncodingFails(c)
    BY <2>1 DEF Archive!S3Assumption, Archive!EncodingFails, Archive!Goes, Archive!TypeOK
  <2>2. CASE Archive!Uploaded(c)
    BY <2>2 DEF Archive!S3Assumption, Archive!Uploaded, Archive!Goes, Archive!TypeOK
  <2>3. CASE Archive!UploadFails(c)
    BY <2>3, <1>1, FailedGoes DEF Archive!UploadFails
  <2>4. QED
    BY <2>1, <2>2, <2>3
<1>5. Archive!TypeOK'
  BY <1>1, <1>3, <1>4, AfterIsOwn DEF Archive!TypeOK, Keys, Archive!Returned, Archive!Kinds
<1>6. OwnersInv'
  <2> SUFFICES ASSUME NEW key \in Keys, sObject'[key] # Nobody
               PROVE  /\ sPc'[sObject'[key]] # "idle"
                      /\ sStamp[sObject'[key]] = key[2]
                      /\ key[1] \in Batches[sObject'[key]]
    BY <1>1 DEF OwnersInv
  <2>1. sPc[c] # "idle"
    BY <1>1 DEF Archive!Kinds
  <2>2. \A d \in Calls : sPc[d] # "idle" => sPc'[d] # "idle"
    BY <1>4, AfterIsOwn DEF Archive!TypeOK
  <2>3. sObject'[key] \in Calls
    BY <1>3
  <2>4. QED
    BY <1>1, <1>2, <1>3, <2>1, <2>2, <2>3 DEF OwnersInv
<1>7. PlacesInv'
  BY <1>1, <1>4, AfterIsOwn DEF PlacesInv, Archive!TypeOK, Archive!Kinds
<1>8. PresentInv'
  <2> SUFFICES ASSUME NEW d \in Calls, NEW k \in Batches[d], Done(d, k)'
               PROVE  sObject'[<<k, sStamp[d]>>] # Nobody
    BY <1>1 DEF PresentInv
  <2>1. <<k, sStamp[d]>> \in Keys /\ c # Nobody
    BY DEF Archive!S3Assumption, Archive!TypeOK, Keys
  <2>2. Done(d, k) \/ (Archive!Uploaded(c) /\ <<k, sStamp[d]>> = key0)
    <3>1. CASE d # c
      BY <3>1, <1>4 DEF Done, Archive!TypeOK
    <3>2. CASE d = c /\ sPc' = sPc
      BY <3>2 DEF Done
    <3>3. CASE d = c /\ sPc' = [sPc EXCEPT ![c] = "failed"]
      BY <3>3 DEF Done, Archive!TypeOK
    <3>4. CASE /\ d = c /\ Archive!Uploaded(c)
               /\ sPc' = [sPc EXCEPT ![c] = IF sPc[c] = "tick" THEN Archive!AfterTicks(c)
                                                             ELSE "uploaded"]
      <4>1. k \in Archive!Kinds
        BY DEF Archive!S3Assumption
      <4>2. CASE sPc[c] = "tick"
        <5>1. sPc'[c] = Archive!AfterTicks(c)
          BY <3>4, <4>2 DEF Archive!TypeOK
        <5>2. k = "tick"
          BY <3>4, <4>1, <5>1, AfterIsOwn DEF Done, Archive!Kinds
        <5>3. QED
          BY <3>4, <4>2, <5>2
      <4>3. CASE sPc[c] = "orderbook"
        BY <3>4, <4>1, <4>3 DEF Done, Archive!Kinds
      <4>4. QED
        BY <1>1, <4>2, <4>3 DEF Archive!Kinds
    <3>5. QED
      BY <1>4, <3>1, <3>2, <3>3, <3>4
  <2>3. QED
    BY <1>3, <2>1, <2>2 DEF PresentInv
<1>9. QED
  BY <1>5, <1>6, <1>7, <1>8

\* Each step keeps the invariant.
LEMMA ArchiveInvNext == ArchiveInv /\ [Archive!Next]_(Archive!vars) => ArchiveInv'
<1> SUFFICES ASSUME ArchiveInv, [Archive!Next]_(Archive!vars) PROVE ArchiveInv'
  OBVIOUS
<1>1. ASSUME NEW c \in Calls, Archive!WriteMessages(c) PROVE ArchiveInv'
  BY <1>1, BeginKeeps
<1>2. ASSUME NEW c \in Calls,
             Archive!EncodingFails(c) \/ Archive!Uploaded(c) \/ Archive!UploadFails(c)
      PROVE  ArchiveInv'
  BY <1>2, UploadKeeps
<1>3. CASE Archive!Close \/ UNCHANGED Archive!vars
  BY <1>3 DEF Archive!Close, Archive!vars, ArchiveInv, Archive!TypeOK, OwnersInv,
     PlacesInv, PresentInv, Done
<1>4. CASE Archive!Tick
  BY <1>4 DEF Archive!S3Assumption, Archive!Tick, ArchiveInv, Archive!TypeOK,
     Archive!Seconds, OwnersInv, PlacesInv, PresentInv, Done
<1>5. QED
  BY <1>1, <1>2, <1>3, <1>4 DEF Archive!Next

LEMMA ArchiveInvIsEnough == ArchiveInv => ArchiveIsTrue
<1> SUFFICES ASSUME ArchiveInv PROVE ArchiveIsTrue
  OBVIOUS
<1> USE DEF ArchiveInv
<1>1. ASSUME NEW c \in Calls, NEW k \in Archive!Kinds
      PROVE  Cardinality({s \in Archive!Seconds : sObject[<<k, s>>] = c}) <= 1
  <2> DEFINE S == {s \in Archive!Seconds : sObject[<<k, s>>] = c}
  <2>1. S \subseteq {sStamp[c]}
    <3> SUFFICES ASSUME NEW s \in Archive!Seconds, sObject[<<k, s>>] = c PROVE s = sStamp[c]
      OBVIOUS
    <3>1. <<k, s>> \in Keys /\ c # Nobody
      BY DEF Archive!S3Assumption, Keys
    <3>2. QED
      BY <3>1 DEF OwnersInv
  <2>2. IsFiniteSet({sStamp[c]}) /\ Cardinality({sStamp[c]}) = 1
    BY FS_Singleton
  <2>3. QED
    BY <2>1, <2>2, FS_Subset
<1>2. ASSUME NEW c \in Calls, NEW k \in Batches[c], Done(c, k)
      PROVE  LET d == sObject[<<k, sStamp[c]>>] IN
               d \in Calls /\ sStamp[d] = sStamp[c] /\ k \in Batches[d]
  <2>1. <<k, sStamp[c]>> \in Keys
    BY DEF Archive!S3Assumption, Keys, Archive!TypeOK
  <2>2. sObject[<<k, sStamp[c]>>] # Nobody
    BY <1>2 DEF PresentInv
  <2>3. QED
    BY <2>1, <2>2 DEF OwnersInv, Archive!TypeOK, Keys
<1>3. \A S : Archive!Cardinality(S) = Cardinality(S)
  BY DEF Archive!Cardinality, Cardinality
<1>4. QED
  BY <1>1, <1>2, <1>3 DEF ArchiveIsTrue, Archive!ArchiveIsTrue, Done

\* The bucket holds at most one object of a kind for each call, and every batch reported
\* as uploaded that nothing of the same second was put over, for any number of
\* overlapping calls and of attempts (s3_writer.go:115-320).
THEOREM ArchiveIsTrueInvariant == MCSpec => []ArchiveIsTrue
<1>1. MCInit => ArchiveInv
  BY ArchiveInvInit, InstancesAssumption DEF MCInit
<1>2. /\ ArchiveInv
      /\ [RecorderStep \/ BufferStep \/ ArchiveStep]_<<part, vars, aloneVars, archiveVars>>
      => ArchiveInv'
  <2>1. [RecorderStep \/ BufferStep \/ ArchiveStep]_<<part, vars, aloneVars, archiveVars>>
          => [Archive!Next]_(Archive!vars)
    BY DEF RecorderStep, BufferStep, ArchiveStep, archiveVars, Archive!vars
  <2> QED
    BY <2>1, ArchiveInvNext
<1> QED
  BY <1>1, <1>2, ArchiveInvIsEnough, PTL DEF MCSpec

-----------------------------------------------------------------------------
(* Where the market data comes from: MarketFeed, for any number of         *)
(* connections, attempts and buffered messages.  FeedInv adds to           *)
(* OneConnection where in reconnect there is no connection at all: from    *)
(* the first critical section, which closes the old one, to the dialling   *)
(* of the next.                                                            *)

Reconnecting == {"attempt", "connect", "dialing", "exhausted"}
Starting == {"connect", "dialing", "failed"}

\* Where conn is nil, and that one who is on a connection has been on it since
\* it was established.
FeedPlacesInv ==
  /\ handler \in Reconnecting => conn = 0
  /\ feedMain \in Starting => conn = 0 /\ handler = "wait"
  /\ feedCtxDone <=> feedMain \in {"stopping", "waiting", "stopped"}

\* The parts of OneConnection.
FeedConnInv ==
  /\ \A c \in Feed!Connections : wire[c] \in {"up", "broken"} => c = conn
  /\ status = "connected" <=> conn # 0
  /\ conn # 0 /\ ~feedCtxDone => wire[conn] \in {"up", "broken"}

FeedInv == Feed!TypeOK /\ FeedPlacesInv /\ FeedConnInv

-----------------------------------------------------------------------------
\* Nothing is connected in the initial state.
LEMMA InitFeedInv == Feed!FeedAssumption /\ Feed!Init => FeedInv
<1> SUFFICES ASSUME Feed!FeedAssumption, Feed!Init
             PROVE  FeedInv
  OBVIOUS
<1>1. Feed!TypeOK
  <2>1. wire \in [Feed!Connections -> Feed!Wire]
    BY DEF Feed!Init, Feed!Wire
  <2>2. inbox \in 0..BufferSize /\ attempt \in 0..MaxAttempts
    BY DEF Feed!FeedAssumption, Feed!Init
  <2>3. /\ handler = "wait" /\ processor = "wait" /\ beat = "wait"
        /\ feedMain = "connect" /\ reader = "check"
    BY DEF Feed!Init
  <2>4. trigger \in BOOLEAN /\ feedCtxDone \in BOOLEAN /\ token \in BOOLEAN
    BY DEF Feed!Init
  <2>5. conn = 0 /\ readConn = 0 /\ beatConn = 0 /\ status = "disconnected"
    BY DEF Feed!Init
  <2> QED
    BY <2>1, <2>2, <2>3, <2>4, <2>5 DEF Feed!TypeOK
<1>2. FeedPlacesInv
  BY DEF Feed!Init, FeedPlacesInv, Reconnecting, Starting
<1>3. FeedConnInv
  BY DEF Feed!Init, FeedConnInv
<1> QED
  BY <1>1, <1>2, <1>3 DEF FeedInv

\* A connection is dialled only where there is none.
LEMMA EstablishedIsAlone ==
  ASSUME Feed!FeedAssumption, Feed!TypeOK, FeedConnInv, conn = 0, Feed!Established
  PROVE  /\ conn' \in Feed!Connections /\ status' = "connected"
         /\ wire' \in [Feed!Connections -> Feed!Wire] /\ wire'[conn'] = "up"
         /\ \A c \in Feed!Connections : wire'[c] \in {"up", "broken"} => c = conn'
  BY DEF Feed!FeedAssumption, Feed!TypeOK, FeedConnInv, Feed!Established,
         Feed!Connections, Feed!Wire

\* The signal, the context and the token stay booleans.
LEMMA NextFeedFlags ==
  ASSUME Feed!TypeOK, [Feed!Next]_(Feed!vars)
  PROVE  trigger' \in BOOLEAN /\ feedCtxDone' \in BOOLEAN /\ token' \in BOOLEAN
<1> DEFINE Same == UNCHANGED <<trigger, feedCtxDone, token>>
<1>1. trigger \in BOOLEAN /\ feedCtxDone \in BOOLEAN /\ token \in BOOLEAN
  BY DEF Feed!TypeOK
<1>2. CASE Feed!StartConnect \/ Feed!StartDialled \/ Feed!Subscribe \/ Feed!StopStep
  <2>1. Same
    BY <1>2
    DEF Feed!StartConnect, Feed!StartDialled, Feed!Subscribe, Feed!StopStep,
        Feed!StopClose, Feed!StopWait
  <2> QED
    BY <1>1, <2>1
<1>3. CASE Feed!StopCancel
  BY <1>1, <1>3 DEF Feed!StopCancel
<1>4. CASE Feed!ReaderStep
  BY <1>1, <1>4
  DEF Feed!ReaderStep, Feed!ReaderCheck, Feed!ReaderLock, Feed!ReadMessage,
      Feed!ReadFails, Feed!TriggerReconnect
<1>5. CASE Feed!ProcessorStep
  BY <1>1, <1>5 DEF Feed!ProcessorStep
<1>6. CASE Feed!Tick \/ Feed!Ping \/ Feed!BeatEnds
  BY <1>1, <1>6 DEF Feed!Tick, Feed!Ping, Feed!BeatEnds, Feed!TriggerReconnect
<1>7. CASE Feed!HandlerStep
  BY <1>1, <1>7
  DEF Feed!HandlerStep, Feed!HandlerEnds, Feed!TakeTrigger, Feed!CloseOld, Feed!Attempt,
      Feed!Reconnect, Feed!GiveUp
<1>8. CASE \E c \in Feed!Connections : Feed!Break(c)
  BY <1>1, <1>8 DEF Feed!Break
<1>9. CASE Feed!RefreshToken
  BY <1>1, <1>9 DEF Feed!RefreshToken
<1>10. CASE UNCHANGED Feed!vars
  BY <1>1, <1>10 DEF Feed!vars
<1> QED
  BY <1>2, <1>3, <1>4, <1>5, <1>6, <1>7, <1>8, <1>9, <1>10 DEF Feed!Next

\* Every step of main, of the four goroutines, of the network and of the
\* token's refresh keeps FeedInv.
LEMMA NextFeedInv ==
  Feed!FeedAssumption /\ FeedInv /\ [Feed!Next]_(Feed!vars) => FeedInv'
<1> SUFFICES ASSUME Feed!FeedAssumption, FeedInv, [Feed!Next]_(Feed!vars)
             PROVE  FeedInv'
  OBVIOUS
<1>0. Feed!TypeOK /\ FeedPlacesInv /\ FeedConnInv /\ 0 \notin Feed!Connections
  BY DEF Feed!FeedAssumption, FeedInv, Feed!Connections
<1>f. trigger' \in BOOLEAN /\ feedCtxDone' \in BOOLEAN /\ token' \in BOOLEAN
  BY <1>0, NextFeedFlags
<1> DEFINE Quiet == UNCHANGED <<Feed!connVars, feedMain, Feed!handlerVars, feedCtxDone>>
<1>1. ASSUME Quiet, Feed!TypeOK'
      PROVE  FeedInv'
  BY <1>0, <1>1 DEF FeedInv, FeedPlacesInv, FeedConnInv, Feed!connVars, Feed!handlerVars
<1>2. CASE Feed!StartConnect
  BY <1>0, <1>2
  DEF FeedInv, Feed!TypeOK, FeedPlacesInv, FeedConnInv, Feed!StartConnect, Feed!MainTo,
      Feed!Dial, Feed!NoToken, Reconnecting, Starting, Feed!readerVars, Feed!beatVars,
      Feed!handlerVars
<1>3. CASE Feed!StartDialled
  <2>1. conn = 0 /\ handler = "wait" /\ feedMain = "dialing" /\ ~feedCtxDone
    BY <1>0, <1>3 DEF Feed!StartDialled, Feed!MainTo, FeedPlacesInv, Starting
  <2>2. UNCHANGED <<trigger, inbox, feedCtxDone, token, Feed!readerVars, processor,
                    Feed!beatVars, Feed!handlerVars>>
    BY <1>3 DEF Feed!StartDialled
  <2>3. CASE feedMain' = "subscribe" /\ Feed!Established
    <3>1. /\ conn' \in Feed!Connections /\ status' = "connected"
          /\ wire' \in [Feed!Connections -> Feed!Wire] /\ wire'[conn'] = "up"
          /\ \A c \in Feed!Connections : wire'[c] \in {"up", "broken"} => c = conn'
      BY <1>0, <2>1, <2>3, EstablishedIsAlone
    <3>2. Feed!TypeOK'
      BY <1>0, <2>2, <2>3, <3>1
      DEF Feed!TypeOK, Feed!readerVars, Feed!beatVars, Feed!handlerVars
    <3>3. FeedPlacesInv'
      BY <2>1, <2>2, <2>3 DEF FeedPlacesInv, Reconnecting, Starting, Feed!handlerVars
    <3>4. FeedConnInv'
      BY <1>0, <3>1 DEF FeedConnInv
    <3> QED
      BY <3>2, <3>3, <3>4 DEF FeedInv
  <2>4. CASE feedMain' = "failed" /\ UNCHANGED Feed!connVars
    BY <1>0, <2>1, <2>2, <2>4
    DEF FeedInv, Feed!TypeOK, FeedPlacesInv, FeedConnInv, Reconnecting, Starting,
        Feed!connVars, Feed!readerVars, Feed!beatVars, Feed!handlerVars
  <2> QED
    BY <1>3, <2>3, <2>4 DEF Feed!StartDialled, Feed!MainTo
<1>4. CASE Feed!Subscribe \/ Feed!StopCancel \/ Feed!StopWait
  <2>1. /\ feedMain' \in {"running", "stopping", "stopped"} /\ feedMain \notin Starting
        /\ UNCHANGED <<Feed!connVars, inbox, Feed!readerVars, processor, Feed!beatVars,
                       Feed!handlerVars>>
    BY <1>4 DEF Feed!Subscribe, Feed!StopCancel, Feed!StopWait, Feed!MainTo, Starting
  <2>2. Feed!TypeOK'
    BY <1>0, <1>f, <2>1
    DEF Feed!TypeOK, Feed!connVars, Feed!readerVars, Feed!beatVars, Feed!handlerVars
  <2>3. FeedPlacesInv'
    BY <1>0, <1>4
    DEF FeedPlacesInv, Starting, Reconnecting, Feed!Subscribe, Feed!StopCancel,
        Feed!StopWait, Feed!MainTo, Feed!connVars, Feed!handlerVars
  <2>4. FeedConnInv'
    BY <1>0, <1>4
    DEF Feed!TypeOK, FeedConnInv, Feed!Subscribe, Feed!StopCancel, Feed!StopWait,
        Feed!connVars
  <2> QED
    BY <2>2, <2>3, <2>4 DEF FeedInv
<1>5. CASE Feed!StopClose
  BY <1>0, <1>5
  DEF FeedInv, Feed!TypeOK, FeedPlacesInv, FeedConnInv, Feed!StopClose, Feed!CloseConn,
      Feed!MainTo, Feed!Wire, Starting, Reconnecting, Feed!connVars, Feed!readerVars,
      Feed!beatVars, Feed!handlerVars
<1>6. CASE Feed!ReaderStep
  <2>1. Quiet
    BY <1>6
    DEF Feed!ReaderStep, Feed!ReaderCheck, Feed!ReaderLock, Feed!ReadMessage,
        Feed!ReadFails
  <2>2. /\ reader' \in {"check", "lock", "read", "done"}
        /\ readConn' \in Feed!Connections \cup {0} /\ (reader' = "read" => readConn' # 0)
        /\ UNCHANGED <<processor, Feed!beatVars>>
    BY <1>0, <1>6
    DEF Feed!TypeOK, Feed!ReaderStep, Feed!ReaderCheck, Feed!ReaderLock,
        Feed!ReadMessage, Feed!ReadFails, Feed!ReaderTo
  <2>3. inbox' \in 0..BufferSize
    BY <1>0, <1>6
    DEF Feed!FeedAssumption, Feed!TypeOK, Feed!ReaderStep, Feed!ReaderCheck,
        Feed!ReaderLock, Feed!ReadMessage, Feed!ReadFails
  <2> QED
    BY <1>0, <1>1, <1>f, <2>1, <2>2, <2>3
    DEF Feed!TypeOK, Feed!connVars, Feed!beatVars, Feed!handlerVars
<1>7. CASE Feed!ProcessorStep
  BY <1>0, <1>1, <1>7
  DEF Feed!FeedAssumption, Feed!TypeOK, Feed!ProcessorStep, Feed!ProcessorTo,
      Feed!connVars, Feed!readerVars, Feed!beatVars, Feed!handlerVars
<1>8. CASE Feed!Tick \/ Feed!Ping \/ Feed!BeatEnds
  <2>1. Quiet /\ UNCHANGED <<inbox, Feed!readerVars, processor>>
    BY <1>8 DEF Feed!Tick, Feed!Ping, Feed!BeatEnds
  <2>2. /\ beat' \in {"wait", "ping", "done"}
        /\ beatConn' \in Feed!Connections \cup {0} /\ (beat' = "ping" => beatConn' # 0)
    BY <1>0, <1>8 DEF Feed!TypeOK, Feed!Tick, Feed!Ping, Feed!BeatEnds, Feed!BeatTo
  <2> QED
    BY <1>0, <1>1, <1>f, <2>1, <2>2
    DEF Feed!TypeOK, Feed!connVars, Feed!readerVars, Feed!handlerVars
<1>9. CASE Feed!HandlerStep
  <2>1. CASE Feed!HandlerEnds
    BY <1>0, <2>1
    DEF FeedInv, Feed!TypeOK, FeedPlacesInv, FeedConnInv, Feed!HandlerEnds,
        Feed!HandlerTo, Feed!Started, Starting, Reconnecting, Feed!connVars,
        Feed!readerVars, Feed!beatVars
  <2>2. CASE Feed!TakeTrigger
    <3>1. /\ handler = "wait" /\ handler' = "reconnect" /\ feedMain \notin Starting
          /\ UNCHANGED <<Feed!connVars, inbox, feedCtxDone, token, feedMain,
                         Feed!readerVars,
                         processor, Feed!beatVars, attempt>>
      BY <2>2 DEF Feed!TakeTrigger, Feed!HandlerTo, Feed!Started, Starting
    <3>2. Feed!TypeOK'
      BY <1>0, <1>f, <3>1 DEF Feed!TypeOK, Feed!connVars, Feed!readerVars, Feed!beatVars
    <3> QED
      BY <1>0, <3>1, <3>2
      DEF FeedInv, FeedPlacesInv, FeedConnInv, Starting, Reconnecting, Feed!connVars
  <2>3. CASE Feed!CloseOld
    BY <1>0, <2>3
    DEF Feed!FeedAssumption, FeedInv, Feed!TypeOK, FeedPlacesInv, FeedConnInv,
        Feed!CloseOld, Feed!CloseConn, Feed!HandlerTo, Feed!Started, Starting,
        Reconnecting, Feed!Wire, Feed!connVars, Feed!readerVars, Feed!beatVars
  <2>4. CASE Feed!Attempt
    <3>1. Feed!TypeOK'
      BY <1>0, <2>4
      DEF Feed!FeedAssumption, Feed!TypeOK, Feed!Attempt, Feed!HandlerTo, Feed!Started,
          Feed!connVars, Feed!readerVars, Feed!beatVars, Feed!handlerVars
    <3>2. FeedPlacesInv'
      BY <1>0, <2>4
      DEF FeedPlacesInv, Starting, Reconnecting, Feed!Attempt, Feed!HandlerTo,
          Feed!Started, Feed!connVars, Feed!readerVars, Feed!beatVars, Feed!handlerVars
    <3>3. FeedConnInv'
      BY <1>0, <2>4
      DEF Feed!TypeOK, FeedPlacesInv, FeedConnInv, Starting, Reconnecting, Feed!Attempt,
          Feed!HandlerTo, Feed!Started, Feed!connVars, Feed!readerVars, Feed!beatVars,
          Feed!handlerVars
    <3> QED
      BY <3>1, <3>2, <3>3 DEF FeedInv
  <2>5. CASE Feed!Reconnect
    <3>1. /\ conn = 0 /\ feedMain \notin Starting
          /\ UNCHANGED <<trigger, inbox, feedCtxDone, token, feedMain, Feed!readerVars,
                         processor, Feed!beatVars>>
      BY <1>0, <2>5
      DEF FeedPlacesInv, Feed!Reconnect, Feed!HandlerTo, Feed!AttemptFails,
          Feed!Started, Starting, Reconnecting
    <3>2. CASE Feed!HandlerTo("dialing", "wait") /\ Feed!Established /\ attempt' = 0
      <4>1. /\ conn' \in Feed!Connections /\ status' = "connected"
            /\ wire' \in [Feed!Connections -> Feed!Wire] /\ wire'[conn'] = "up"
            /\ \A c \in Feed!Connections : wire'[c] \in {"up", "broken"} => c = conn'
        BY <1>0, <3>1, <3>2, EstablishedIsAlone
      <4>2. Feed!TypeOK'
        BY <1>0, <1>f, <3>1, <3>2, <4>1
        DEF Feed!FeedAssumption, Feed!TypeOK, Feed!HandlerTo, Feed!readerVars,
            Feed!beatVars
      <4>3. FeedPlacesInv'
        BY <1>0, <3>1, <3>2 DEF FeedPlacesInv, Feed!HandlerTo, Reconnecting, Starting
      <4>4. FeedConnInv'
        BY <1>0, <4>1 DEF FeedConnInv
      <4> QED
        BY <4>2, <4>3, <4>4 DEF FeedInv
    <3>3. CASE \/ Feed!HandlerTo("connect", "dialing") /\ Feed!Dial /\ UNCHANGED attempt
               \/ Feed!NoToken /\ Feed!AttemptFails("connect")
      <4>1. Feed!TypeOK'
        BY <1>0, <3>1, <3>3
        DEF Feed!FeedAssumption, Feed!TypeOK, Feed!HandlerTo, Feed!AttemptFails,
            Feed!Dial, Feed!NoToken, Feed!Started, Feed!connVars, Feed!readerVars,
            Feed!beatVars, Feed!handlerVars
      <4>2. FeedPlacesInv'
        BY <1>0, <3>1, <3>3
        DEF FeedPlacesInv, Starting, Reconnecting, Feed!HandlerTo, Feed!AttemptFails,
            Feed!Dial, Feed!NoToken, Feed!Started, Feed!connVars, Feed!readerVars,
            Feed!beatVars, Feed!handlerVars
      <4>3. FeedConnInv'
        BY <1>0, <3>1, <3>3
        DEF Feed!TypeOK, FeedPlacesInv, FeedConnInv, Starting, Reconnecting,
            Feed!HandlerTo, Feed!AttemptFails, Feed!Dial, Feed!NoToken, Feed!Started,
            Feed!connVars, Feed!readerVars, Feed!beatVars, Feed!handlerVars
      <4> QED
        BY <4>1, <4>2, <4>3 DEF FeedInv
    <3>4. CASE Feed!AttemptFails("dialing") /\ UNCHANGED Feed!connVars
      <4>1. Feed!TypeOK'
        BY <1>0, <3>1, <3>4
        DEF Feed!FeedAssumption, Feed!TypeOK, Feed!HandlerTo, Feed!AttemptFails,
            Feed!Started, Feed!connVars, Feed!readerVars, Feed!beatVars,
            Feed!handlerVars
      <4>2. FeedPlacesInv'
        BY <1>0, <3>1, <3>4
        DEF FeedPlacesInv, Starting, Reconnecting, Feed!HandlerTo, Feed!AttemptFails,
            Feed!Started, Feed!connVars, Feed!readerVars, Feed!beatVars,
            Feed!handlerVars
      <4>3. FeedConnInv'
        BY <1>0, <3>1, <3>4
        DEF Feed!TypeOK, FeedPlacesInv, FeedConnInv, Starting, Reconnecting,
            Feed!HandlerTo, Feed!AttemptFails, Feed!Started, Feed!connVars,
            Feed!readerVars, Feed!beatVars, Feed!handlerVars
      <4> QED
        BY <4>1, <4>2, <4>3 DEF FeedInv
    <3> QED
      BY <2>5, <3>2, <3>3, <3>4 DEF Feed!Reconnect
  <2>6. CASE Feed!GiveUp
    <3>1. Feed!TypeOK'
      BY <1>0, <2>6
      DEF Feed!FeedAssumption, Feed!TypeOK, Feed!GiveUp, Feed!HandlerTo, Feed!Started,
          Feed!connVars, Feed!readerVars, Feed!beatVars, Feed!handlerVars
    <3>2. FeedPlacesInv'
      BY <1>0, <2>6
      DEF FeedPlacesInv, Starting, Reconnecting, Feed!GiveUp, Feed!HandlerTo,
          Feed!Started, Feed!connVars, Feed!readerVars, Feed!beatVars, Feed!handlerVars
    <3>3. FeedConnInv'
      BY <1>0, <2>6
      DEF Feed!TypeOK, FeedPlacesInv, FeedConnInv, Starting, Reconnecting, Feed!GiveUp,
          Feed!HandlerTo, Feed!Started, Feed!connVars, Feed!readerVars, Feed!beatVars,
          Feed!handlerVars
    <3> QED
      BY <3>1, <3>2, <3>3 DEF FeedInv
  <2> QED
    BY <1>9, <2>1, <2>2, <2>3, <2>4, <2>5, <2>6 DEF Feed!HandlerStep
<1>10. ASSUME NEW c \in Feed!Connections, Feed!Break(c)
       PROVE  FeedInv'
  BY <1>0, <1>10
  DEF FeedInv, Feed!TypeOK, FeedPlacesInv, FeedConnInv, Feed!Break, Feed!Up, Feed!Wire,
      Feed!readerVars, Feed!beatVars, Feed!handlerVars
<1>11. CASE Feed!RefreshToken
  BY <1>0, <1>1, <1>11
  DEF Feed!TypeOK, Feed!RefreshToken, Feed!connVars, Feed!readerVars, Feed!beatVars,
      Feed!handlerVars
<1>12. CASE UNCHANGED Feed!vars
  BY <1>0, <1>1, <1>12
  DEF Feed!TypeOK, Feed!vars, Feed!connVars, Feed!readerVars, Feed!beatVars,
      Feed!handlerVars
<1> QED
  BY <1>2, <1>3, <1>4, <1>5, <1>6, <1>7, <1>8, <1>9, <1>10, <1>11, <1>12
  DEF Feed!Next, Feed!StopStep

\* Spec keeps the types, the places without a connection and the connections.
THEOREM FeedInvInvariant ==
  Feed!Spec => []FeedInv
  BY FeedIsAssumed, InitFeedInv, NextFeedInv, PTL DEF Feed!Spec

\* The client has one connection at a time and forgets none, however its
\* reconnections, its stop, the network and its token interleave
\* (client.go:299-303).
THEOREM OneConnectionInvariant == Feed!Spec => []OneConnection
<1>1. FeedInv => OneConnection
  <2> SUFFICES ASSUME FeedInv
               PROVE  OneConnection
    OBVIOUS
  <2>1. conn # 0 => conn \in Feed!Connections
    BY DEF FeedInv, Feed!TypeOK
  <2>2. Feed!Open \subseteq {conn}
    BY DEF FeedInv, FeedConnInv, Feed!Open
  <2>3. conn # 0 /\ ~feedCtxDone => conn \in Feed!Open
    BY <2>1 DEF FeedInv, FeedConnInv, Feed!Open
  <2> QED
    BY <2>2, <2>3 DEF FeedInv, FeedConnInv, OneConnection, Feed!OneConnection
<1> QED
  BY <1>1, FeedInvInvariant, PTL

-----------------------------------------------------------------------------
(* What becomes of a message of the feed: MarketPublisher, for any         *)
(* messages, any sizes of sarama's buffer and channels and any number of   *)
(* retries.  PublisherInv adds to the two properties that a message is at  *)
(* one place at a time, that pipe is in the order in which the processor   *)
(* sent, so that what MaySend lets through is the first of its partition,  *)
(* and which of the counted messages are in the topics (CountInv).         *)

\* The messages at each place.
Increasing(s) == \A k, l \in DOMAIN s : k < l => s[k] < s[l]
Hand(x) == {x} \ {Nothing}
Waiting == Range(pipe)
Won == Range(successes) \cup Hand(won)
Failing == Range(errors) \cup Hand(failing)

ChannelsInv ==
  /\ {pipe, log, successes, errors} \subseteq Seq(Publisher!Ids)
  /\ Increasing(pipe)
  /\ IsInjective(log) /\ IsInjective(successes) /\ IsInjective(errors)
  /\ won \notin Range(successes) /\ failing \notin Range(errors)

\* A message the processor took is at one place, and the others are not there.
ApartInv ==
  /\ Hand(sending)
       \cap (Waiting \cup Won \cup Failing \cup refused \cup counted \cup drained) = {}
  /\ Waiting \cap (Won \cup Failing \cup refused \cup counted \cup drained) = {}
  /\ Won \cap (Failing \cup refused \cup counted \cup drained) = {}
  /\ Failing \cap (refused \cup counted \cup drained) = {}
  /\ refused \cap (counted \cup drained) = {}
  /\ counted \cap drained = {}

TakenInv ==
  /\ Publisher!Taken = Hand(sending) \cup Waiting \cup Won \cup Failing
                         \cup refused \cup counted \cup drained
  /\ sending # Nothing => next = sending + 1
  /\ Range(log) \subseteq Publisher!Taken \ (Hand(sending) \cup refused)

\* A message with a result is in the log, or its retries are used up.
FateInv ==
  /\ Won \subseteq Range(log)
  /\ \A i \in Failing : requests[i] = RetryMax + 1
  /\ \A i \in counted \cup drained : i \in Range(log) \/ requests[i] = RetryMax + 1

\* What has no result and is not in the log comes after all of its partition that is.
OrderInv ==
  \A i \in Waiting, j \in Range(log) :
    Publisher!SamePartition(i, j) /\ i < j => i \in Range(log)

\* The counters tell the counted messages apart into those in the log and others.
CountInv ==
  \E S \in SUBSET (counted \cap Range(log)) :
    /\ count["tick"] + count["orderbook"] = Cardinality(S)
    /\ count["error"] = Cardinality(counted \ S) + Cardinality(refused)

PublisherInv ==
  /\ Publisher!TypeOK /\ ChannelsInv /\ ApartInv /\ TakenInv /\ FateInv /\ OrderInv
  /\ OncePerTopicInOrder /\ CountInv

-----------------------------------------------------------------------------
LEMMA IdsAreNumbers ==
  /\ Publisher!Ids = 1 .. Len(Frames) /\ Publisher!Ids \subseteq Nat
  /\ Nothing \notin Publisher!Ids /\ IsFiniteSet(Publisher!Ids)
  /\ {InputSize, ResultSize, RetryMax} \subseteq Nat
<1>1. Publisher!Ids = 1 .. Len(Frames) /\ Len(Frames) \in Nat
  BY PublisherIsAssumed DEF Publisher!PublisherAssumption, Publisher!Ids
<1>2. IsFiniteSet(1 .. Len(Frames))
  BY <1>1, FS_Interval
<1> QED
  BY <1>1, <1>2, PublisherIsAssumed DEF Publisher!PublisherAssumption

LEMMA SameCardinality == \A S : Publisher!Cardinality(S) = Cardinality(S)
  BY DEF Publisher!Cardinality, Cardinality

LEMMA SetOf == \A s : Publisher!ToSet(s) = Range(s)
  BY DEF Publisher!ToSet, Range

\* One more at the end.
LEMMA AppendPlaces ==
  ASSUME NEW S, NEW s \in Seq(S), NEW e \in S
  PROVE  /\ Append(s, e) \in Seq(S) /\ Len(Append(s, e)) = Len(s) + 1
         /\ DOMAIN Append(s, e) = 1 .. (Len(s) + 1)
         /\ DOMAIN s = 1 .. Len(s) /\ Len(s) \in Nat
         /\ \A k \in DOMAIN s : Append(s, e)[k] = s[k]
         /\ Append(s, e)[Len(s) + 1] = e
         /\ Range(Append(s, e)) = Range(s) \cup {e}
         /\ IsInjective(s) /\ e \notin Range(s) => IsInjective(Append(s, e))
<1>1. /\ Append(s, e) \in Seq(S) /\ Len(Append(s, e)) = Len(s) + 1
      /\ DOMAIN Append(s, e) = 1 .. (Len(s) + 1)
      /\ DOMAIN s = 1 .. Len(s) /\ Len(s) \in Nat
      /\ \A k \in DOMAIN s : Append(s, e)[k] = s[k]
      /\ Append(s, e)[Len(s) + 1] = e
  BY AppendProperties, LenProperties
<1>2. Range(Append(s, e)) = Range(s) \cup {e}
  BY <1>1 DEF Range
<1>3. IsInjective(s) /\ e \notin Range(s) => IsInjective(Append(s, e))
  BY <1>1 DEF Range, IsInjective
<1> QED
  BY <1>1, <1>2, <1>3

\* One less at the front.
LEMMA TailPlaces ==
  ASSUME NEW S, NEW s \in Seq(S), s # <<>>, IsInjective(s)
  PROVE  /\ Tail(s) \in Seq(S) /\ Len(Tail(s)) = Len(s) - 1 /\ Len(s) \in Nat
         /\ Head(s) \in Range(s) /\ Range(Tail(s)) = Range(s) \ {Head(s)}
         /\ IsInjective(Tail(s))
<1>1. /\ Tail(s) \in Seq(S) /\ Len(Tail(s)) = Len(s) - 1 /\ Head(s) = s[1]
      /\ \A k \in 1 .. Len(Tail(s)) : Tail(s)[k] = s[k + 1]
      /\ DOMAIN s = 1 .. Len(s) /\ Len(s) \in Nat \ {0}
      /\ DOMAIN Tail(s) = 1 .. (Len(s) - 1)
  BY HeadTailProperties, LenProperties, EmptySeq
<1>2. Range(Tail(s)) = Range(s) \ {Head(s)}
  <2>1. \A x \in Range(s) \ {Head(s)} : x \in Range(Tail(s))
    <3> SUFFICES ASSUME NEW k \in DOMAIN s, s[k] # Head(s)
                 PROVE  s[k] \in Range(Tail(s))
      BY DEF Range
    <3>1. k - 1 \in DOMAIN Tail(s) /\ Tail(s)[k - 1] = s[k]
      BY <1>1
    <3> QED
      BY <3>1 DEF Range
  <2>2. \A x \in Range(Tail(s)) : x \in Range(s) \ {Head(s)}
    BY <1>1 DEF Range, IsInjective
  <2> QED
    BY <2>1, <2>2
<1>3. IsInjective(Tail(s))
  BY <1>1 DEF IsInjective
<1>4. Head(s) \in Range(s)
  BY <1>1 DEF Range
<1> QED
  BY <1>1, <1>2, <1>3, <1>4

\* One less anywhere.
LEMMA WithoutPlaces ==
  ASSUME NEW S \in SUBSET Nat, NEW s \in Seq(S), Increasing(s), NEW i \in Range(s)
  PROVE  /\ Publisher!Without(s, i) \in Seq(S) /\ Increasing(Publisher!Without(s, i))
         /\ Len(Publisher!Without(s, i)) = Len(s) - 1 /\ Len(s) \in Nat
         /\ Range(Publisher!Without(s, i)) = Range(s) \ {i}
<1> DEFINE c == CHOOSE k \in DOMAIN s : s[k] = i
           w == Publisher!Without(s, i)
<1>1. c \in DOMAIN s /\ s[c] = i
  BY DEF Range
<1>2. /\ DOMAIN s = 1 .. Len(s) /\ Len(s) \in Nat
      /\ \A k \in DOMAIN s : s[k] \in S /\ s[k] \in Nat
  BY LenProperties, ElementOfSeq
<1>3. w = SubSeq(s, 1, c - 1) \o SubSeq(s, c + 1, Len(s))
  BY DEF Publisher!Without, Publisher!RemoveAt
<1> HIDE DEF c, w
<1> DEFINE front == SubSeq(s, 1, c - 1)
           rest == SubSeq(s, c + 1, Len(s))
<1>4. /\ front \in Seq(S) /\ Len(front) = c - 1
      /\ \A k \in 1 .. (c - 1) : front[k] = s[k]
  <2>1. \A k \in 1 .. (c - 1) : s[k] \in S /\ 1 + k - 1 = k
    BY <1>1, <1>2
  <2>2. 1 \in Int /\ c - 1 \in Int /\ (c - 1) - 1 + 1 = c - 1
        /\ (IF 1 <= c - 1 THEN (c - 1) - 1 + 1 ELSE 0) = c - 1
    BY <1>1, <1>2
  <2> QED
    BY <2>1, <2>2, SubSeqProperties
<1>5. /\ rest \in Seq(S) /\ Len(rest) = Len(s) - c
      /\ \A k \in 1 .. (Len(s) - c) : rest[k] = s[k + c]
  <2>1. \A k \in (c + 1) .. Len(s) : s[k] \in S
    BY <1>1, <1>2
  <2>2. c + 1 \in Int /\ Len(s) \in Int /\ c \in 1 .. Len(s)
    BY <1>1, <1>2
  <2>3. /\ rest \in Seq(S)
        /\ Len(rest) = IF c + 1 <= Len(s) THEN Len(s) - (c + 1) + 1 ELSE 0
        /\ \A k \in 1 .. Len(s) - (c + 1) + 1 : rest[k] = s[(c + 1) + k - 1]
    BY <2>1, <2>2, SubSeqProperties
  <2>4. /\ Len(s) - (c + 1) + 1 = Len(s) - c
        /\ \A k \in 1 .. (Len(s) - c) : (c + 1) + k - 1 = k + c
        /\ (IF c + 1 <= Len(s) THEN Len(s) - (c + 1) + 1 ELSE 0) = Len(s) - c
    BY <2>2
  <2> HIDE DEF rest
  <2> QED
    BY <2>3, <2>4
<1> HIDE DEF front, rest
<1>6. /\ w \in Seq(S) /\ Len(w) = Len(s) - 1 /\ DOMAIN w = 1 .. (Len(s) - 1)
      /\ \A k \in 1 .. (Len(s) - 1) : w[k] = IF k < c THEN s[k] ELSE s[k + 1]
  <2>0. w = front \o rest
    BY <1>3 DEF front, rest
  <2>1. w \in Seq(S) /\ Len(w) = Len(front) + Len(rest)
        /\ \A k \in 1 .. Len(front) + Len(rest) :
             w[k] = IF k <= Len(front) THEN front[k] ELSE rest[k - Len(front)]
    BY <1>4, <1>5, <2>0, ConcatProperties
  <2>2. Len(w) = Len(s) - 1
    BY <1>1, <1>2, <1>4, <1>5, <2>1
  <2>3. DOMAIN w = 1 .. (Len(s) - 1)
    BY <2>1, <2>2, LenProperties
  <2>4. ASSUME NEW k \in 1 .. (Len(s) - 1)
        PROVE  w[k] = IF k < c THEN s[k] ELSE s[k + 1]
    <3>1. k \in 1 .. Len(front) + Len(rest)
      BY <1>1, <1>2, <1>4, <1>5
    <3>2. CASE k < c
      <4>1. k <= Len(front) /\ k \in 1 .. (c - 1)
        BY <1>1, <1>2, <1>4, <3>2
      <4> QED
        BY <1>4, <2>1, <3>1, <3>2, <4>1
    <3>3. CASE ~(k < c)
      <4>1. ~(k <= Len(front)) /\ k - Len(front) \in 1 .. (Len(s) - c)
            /\ k - Len(front) + c = k + 1
        BY <1>1, <1>2, <1>4, <3>3
      <4> QED
        BY <1>5, <2>1, <3>1, <3>3, <4>1
    <3> QED
      BY <3>2, <3>3
  <2> QED
    BY <2>1, <2>2, <2>3, <2>4
<1>7. Increasing(w)
  <2> SUFFICES ASSUME NEW k \in DOMAIN w, NEW l \in DOMAIN w, k < l
               PROVE  w[k] < w[l]
    BY DEF Increasing
  <2>1. PICK x \in DOMAIN s : w[k] = s[x] /\ x = IF k < c THEN k ELSE k + 1
    BY <1>1, <1>2, <1>6
  <2>2. PICK y \in DOMAIN s : w[l] = s[y] /\ y = IF l < c THEN l ELSE l + 1
    BY <1>1, <1>2, <1>6
  <2>3. x < y
    BY <1>1, <1>2, <1>6, <2>1, <2>2
  <2> QED
    BY <2>1, <2>2, <2>3 DEF Increasing
<1>8. Range(w) = Range(s) \ {i}
  <2>1. \A k \in DOMAIN s : s[k] = i => k = c
    BY <1>1, <1>2 DEF Increasing
  <2>2. ASSUME NEW k \in DOMAIN w
        PROVE  w[k] \in Range(s) \ {i}
    <3>1. PICK x \in DOMAIN s : w[k] = s[x] /\ x = IF k < c THEN k ELSE k + 1
      BY <1>1, <1>2, <1>6
    <3>2. x # c
      BY <1>1, <1>2, <1>6, <3>1
    <3> QED
      BY <2>1, <3>1, <3>2 DEF Range
  <2>3. ASSUME NEW k \in DOMAIN s, s[k] # i
        PROVE  s[k] \in Range(w)
    <3>1. CASE k < c
      BY <1>1, <1>2, <1>6, <3>1 DEF Range
    <3>2. CASE k > c
      <4>1. k - 1 \in DOMAIN w /\ w[k - 1] = s[k]
        BY <1>1, <1>2, <1>6, <3>2
      <4> QED
        BY <4>1 DEF Range
    <3> QED
      BY <1>1, <1>2, <2>3, <3>1, <3>2
  <2> QED
    BY <2>2, <2>3 DEF Range
<1> QED
  BY <1>2, <1>6, <1>7, <1>8 DEF w

-----------------------------------------------------------------------------
\* What the processor took, and what a message of it is.
LEMMA TakenIsSent ==
  ASSUME PublisherInv
  PROVE  /\ Publisher!Taken \subseteq Publisher!Ids
         /\ \A i \in Publisher!Taken : /\ Publisher!Topic(i) \in {"tick", "orderbook"}
                                       /\ i < next /\ i \in Nat
         /\ next \in Nat
  BY IdsAreNumbers
  DEF PublisherInv, Publisher!TypeOK, Publisher!Taken, Publisher!Publishable, Publisher!Topic

LEMMA LogStays == PublisherInv /\ UNCHANGED log => OncePerTopicInOrder'
<1> SUFFICES ASSUME OncePerTopicInOrder, UNCHANGED log
             PROVE  OncePerTopicInOrder'
  BY DEF PublisherInv
<1> QED
  BY DEF OncePerTopicInOrder, Publisher!OncePerTopicInOrder, Publisher!Before,
         Publisher!ToSet, Publisher!IsInjective

LEMMA CountStays ==
  ASSUME PublisherInv, UNCHANGED <<count, counted, refused>>, Range(log) \subseteq Range(log)'
  PROVE  CountInv'
  BY DEF PublisherInv, CountInv

\* main moves, everything else stays.
LEMMA QuietKeeps ==
  ASSUME PublisherInv, Publisher!TypeOK',
         UNCHANGED <<next, sending, refused, pipe, requests, log, successes, errors, won,
                     failing, count, counted, drained>>
  PROVE  PublisherInv'
<1>1. ChannelsInv' /\ ApartInv' /\ TakenInv' /\ FateInv' /\ OrderInv'
  BY DEF PublisherInv, ChannelsInv, ApartInv, TakenInv, FateInv, OrderInv, Waiting, Won,
         Failing, Publisher!Taken
<1>2. OncePerTopicInOrder' /\ CountInv'
  BY LogStays, CountStays
<1> QED
  BY <1>1, <1>2 DEF PublisherInv

LEMMA MainStepKeeps ==
  ASSUME PublisherInv,
         \/ Publisher!ProcessorEnds \/ Publisher!Signal \/ Publisher!CloseProducer
         \/ Publisher!CloseReturns \/ Publisher!Exit \/ Publisher!ForceExit
         \/ UNCHANGED Publisher!vars
  PROVE  PublisherInv'
<1>1. Publisher!TypeOK' /\ UNCHANGED <<next, sending, refused, pipe, requests, log, successes,
                                       errors, won, failing, count, counted, drained>>
  BY DEF PublisherInv, Publisher!TypeOK, Publisher!ProcessorEnds, Publisher!Signal,
         Publisher!CloseProducer, Publisher!CloseReturns, Publisher!Exit, Publisher!ForceExit,
         Publisher!vars, Publisher!feedVars, Publisher!saramaVars, Publisher!resultVars,
         Publisher!metricVars
<1> QED
  BY <1>1, QuietKeeps

LEMMA SkipMessageKeeps ==
  ASSUME PublisherInv, Publisher!SkipMessage
  PROVE  PublisherInv'
<1>1. /\ next \in Publisher!Ids /\ ~Publisher!Publishable(next) /\ next' = next + 1
      /\ sending = Nothing
      /\ UNCHANGED <<stage, cancelled, sending, refused, pipe, requests, log, successes,
                     errors, won, failing, count, counted, drained>>
  BY DEF Publisher!SkipMessage, Publisher!Processing, Publisher!saramaVars,
         Publisher!resultVars, Publisher!metricVars
<1>2. Publisher!TypeOK'
  BY <1>1, IdsAreNumbers DEF PublisherInv, Publisher!TypeOK
<1>3. Publisher!Taken' = Publisher!Taken
  BY <1>1, IdsAreNumbers DEF Publisher!Taken
<1>4. ChannelsInv' /\ ApartInv' /\ TakenInv' /\ FateInv' /\ OrderInv'
  BY <1>1, <1>3
  DEF PublisherInv, ChannelsInv, ApartInv, TakenInv, FateInv, OrderInv, Waiting, Won,
      Failing
<1>5. OncePerTopicInOrder' /\ CountInv'
  BY <1>1, LogStays, CountStays
<1> QED
  BY <1>2, <1>4, <1>5 DEF PublisherInv

LEMMA StartSendKeeps ==
  ASSUME PublisherInv, Publisher!StartSend
  PROVE  PublisherInv'
<1>1. /\ next \in Publisher!Ids /\ Publisher!Publishable(next) /\ next' = next + 1
      /\ sending = Nothing /\ sending' = next
      /\ UNCHANGED <<stage, cancelled, refused, pipe, requests, log, successes, errors,
                     won, failing, count, counted, drained>>
  BY DEF Publisher!StartSend, Publisher!Processing, Publisher!saramaVars,
         Publisher!resultVars, Publisher!metricVars
<1>2. Publisher!TypeOK'
  BY <1>1, IdsAreNumbers DEF PublisherInv, Publisher!TypeOK
<1>3. Publisher!Taken' = Publisher!Taken \cup {next} /\ next \notin Publisher!Taken
  BY <1>1, IdsAreNumbers DEF Publisher!Taken
<1>4. Hand(sending) = {} /\ Hand(sending)' = {next}
  BY <1>1, IdsAreNumbers DEF Hand
<1>5. UNCHANGED <<Waiting, Won, Failing, Range(log)>>
  BY <1>1 DEF Waiting, Won, Failing
<1>6. ChannelsInv' /\ FateInv' /\ OrderInv'
  BY <1>1, <1>5 DEF PublisherInv, ChannelsInv, FateInv, OrderInv
<1>7. ApartInv' /\ TakenInv'
  <2>1. ApartInv /\ TakenInv
    BY DEF PublisherInv
  <2>2. next \notin Waiting \cup Won \cup Failing \cup refused \cup counted \cup drained
        /\ next \notin Range(log)
    BY <2>1, <1>3 DEF TakenInv
  <2> QED
    BY <2>1, <2>2, <1>1, <1>3, <1>4, <1>5 DEF ApartInv, TakenInv
<1>8. OncePerTopicInOrder' /\ CountInv'
  BY <1>1, LogStays, CountStays
<1> QED
  BY <1>2, <1>6, <1>7, <1>8 DEF PublisherInv

LEMMA SendAcceptedKeeps ==
  ASSUME PublisherInv, Publisher!SendAccepted
  PROVE  PublisherInv'
<1>1. /\ sending # Nothing /\ sending' = Nothing /\ Len(pipe) < InputSize
      /\ pipe' = Append(pipe, sending)
      /\ UNCHANGED <<stage, cancelled, next, refused, requests, log, successes, errors,
                     won, failing, count, counted, drained>>
  BY DEF Publisher!SendAccepted, Publisher!resultVars, Publisher!metricVars
<1>2. /\ sending \in Publisher!Ids /\ pipe \in Seq(Publisher!Ids)
      /\ ChannelsInv /\ ApartInv /\ TakenInv /\ FateInv /\ OrderInv
  BY <1>1 DEF PublisherInv, Publisher!TypeOK, ChannelsInv
<1>3. /\ pipe' \in Seq(Publisher!Ids) /\ Len(pipe') = Len(pipe) + 1 /\ Len(pipe) \in Nat
      /\ DOMAIN pipe' = 1 .. (Len(pipe) + 1) /\ DOMAIN pipe = 1 .. Len(pipe)
      /\ \A k \in DOMAIN pipe : pipe'[k] = pipe[k]
      /\ pipe'[Len(pipe) + 1] = sending
      /\ Waiting' = Waiting \cup {sending}
  BY <1>1, <1>2, AppendPlaces DEF Waiting
<1>4. /\ UNCHANGED <<Won, Failing, Range(log), Publisher!Taken>>
      /\ Hand(sending) = {sending} /\ Hand(sending)' = {}
  BY <1>1 DEF Won, Failing, Publisher!Taken, Hand
<1>5. \A i \in Waiting \cup Range(log) : i \in Nat /\ i < sending
  <2>1. /\ sending \notin Waiting \cup Range(log)
        /\ Waiting \cup Range(log) \subseteq Publisher!Taken
    BY <1>2, <1>4 DEF ApartInv, TakenInv
  <2>2. next = sending + 1 /\ sending \in Nat
    BY <1>1, <1>2, IdsAreNumbers DEF TakenInv
  <2> QED
    BY <2>1, <2>2, TakenIsSent
<1>6. Publisher!TypeOK'
  <2>1. Publisher!ToSet(pipe') \subseteq Publisher!Ids
    BY <1>2, <1>3, SetOf DEF PublisherInv, Publisher!TypeOK, Waiting
  <2> QED
    BY <1>1, <1>3, <2>1, IdsAreNumbers DEF PublisherInv, Publisher!TypeOK
<1>7. ChannelsInv'
  <2>1. Increasing(pipe')
    BY <1>2, <1>3, <1>5 DEF ChannelsInv, Increasing, Waiting, Range
  <2> QED
    BY <1>1, <1>2, <1>3, <2>1 DEF ChannelsInv
<1>8. ApartInv' /\ TakenInv'
  BY <1>1, <1>2, <1>3, <1>4 DEF ApartInv, TakenInv
<1>9. FateInv' /\ OrderInv'
  <2>1. OrderInv'
    <3> SUFFICES ASSUME NEW i \in Waiting', NEW j \in Range(log)',
                        Publisher!SamePartition(i, j)', i < j
                 PROVE  i \in Range(log)'
      BY DEF OrderInv
    <3>1. Publisher!SamePartition(i, j)
      BY DEF Publisher!SamePartition, Publisher!Topic
    <3>2. i # sending
      BY <1>2, <1>4, <1>5, IdsAreNumbers
    <3> QED
      BY <1>2, <1>3, <1>4, <3>1, <3>2 DEF OrderInv
  <2> QED
    BY <1>1, <1>2, <1>4, <2>1 DEF FateInv
<1>10. OncePerTopicInOrder' /\ CountInv'
  BY <1>1, LogStays, CountStays
<1> QED
  BY <1>6, <1>7, <1>8, <1>9, <1>10 DEF PublisherInv

LEMMA HistoriesAreFinite ==
  ASSUME PublisherInv
  PROVE  /\ IsFiniteSet(refused) /\ IsFiniteSet(counted)
         /\ \A S \in SUBSET counted : IsFiniteSet(S) /\ IsFiniteSet(counted \ S)
  BY IdsAreNumbers, FS_Subset DEF PublisherInv, Publisher!TypeOK

LEMMA SendRefusedKeeps ==
  ASSUME PublisherInv, Publisher!SendRefused
  PROVE  PublisherInv'
<1>1. /\ sending # Nothing /\ sending' = Nothing /\ refused' = refused \cup {sending}
      /\ count' = [count EXCEPT !["error"] = @ + 1]
      /\ UNCHANGED <<stage, cancelled, next, pipe, requests, log, successes, errors,
                     won, failing, counted, drained>>
  BY DEF Publisher!SendRefused, Publisher!saramaVars, Publisher!resultVars
<1>2. /\ sending \in Publisher!Ids /\ count \in [Publisher!Metrics -> Nat]
      /\ ChannelsInv /\ ApartInv /\ TakenInv /\ FateInv /\ OrderInv
  BY <1>1 DEF PublisherInv, Publisher!TypeOK
<1>3. /\ count' \in [Publisher!Metrics -> Nat] /\ count'["error"] = count["error"] + 1
      /\ count'["tick"] = count["tick"] /\ count'["orderbook"] = count["orderbook"]
      /\ count["error"] \in Nat
  BY <1>1, <1>2 DEF Publisher!Metrics
<1>4. Publisher!TypeOK'
  BY <1>1, <1>2, <1>3 DEF PublisherInv, Publisher!TypeOK
<1>5. /\ UNCHANGED <<Waiting, Won, Failing, Range(log), Publisher!Taken>>
      /\ Hand(sending) = {sending} /\ Hand(sending)' = {}
  BY <1>1 DEF Waiting, Won, Failing, Publisher!Taken, Hand
<1>6. ChannelsInv' /\ ApartInv' /\ TakenInv'
  BY <1>1, <1>2, <1>5 DEF ChannelsInv, ApartInv, TakenInv
<1>7. FateInv' /\ OrderInv'
  BY <1>1, <1>2, <1>5 DEF FateInv, OrderInv
<1>8. CountInv'
  <2>1. PICK S \in SUBSET (counted \cap Range(log)) :
             /\ count["tick"] + count["orderbook"] = Cardinality(S)
             /\ count["error"] = Cardinality(counted \ S) + Cardinality(refused)
    BY DEF PublisherInv, CountInv
  <2>2. Cardinality(refused') = Cardinality(refused) + 1 /\ Cardinality(refused) \in Nat
    BY <1>1, <1>2, <1>5, HistoriesAreFinite, FS_AddElement, FS_CardinalityType DEF ApartInv
  <2>3. Cardinality(counted \ S) \in Nat
    BY HistoriesAreFinite, FS_CardinalityType
  <2>4. S \in SUBSET (counted' \cap Range(log)')
    BY <1>1
  <2>5. count'["error"] = Cardinality(counted' \ S) + Cardinality(refused')
    BY <1>1, <1>3, <2>1, <2>2, <2>3
  <2> QED
    BY <1>3, <2>1, <2>4, <2>5 DEF CountInv
<1>9. OncePerTopicInOrder'
  BY <1>1, LogStays
<1> QED
  BY <1>4, <1>6, <1>7, <1>8, <1>9 DEF PublisherInv

-----------------------------------------------------------------------------
\* The message a request is sent for is the first of its partition that waits.
LEMMA FirstOfPartition ==
  ASSUME PublisherInv, NEW i \in Publisher!Ids, Publisher!MaySend(i)
  PROVE  /\ i \in Waiting /\ requests[i] <= RetryMax
         /\ \A j \in Waiting : Publisher!SamePartition(j, i) => i <= j
<1>1. /\ i \in Publisher!ToSet(pipe) /\ requests[i] <= RetryMax
      /\ \A k \in DOMAIN pipe : Publisher!SamePartition(pipe[k], i) =>
           \E l \in 1 .. k : pipe[l] = i
  BY DEF Publisher!MaySend, Publisher!EnableIdempotence
<1>2. i \in Waiting
  BY <1>1, SetOf DEF Waiting
<1>3. /\ pipe \in Seq(Publisher!Ids) /\ DOMAIN pipe = 1 .. Len(pipe) /\ Len(pipe) \in Nat
      /\ \A k \in DOMAIN pipe : pipe[k] \in Nat
      /\ Increasing(pipe)
  BY IdsAreNumbers, LenProperties, ElementOfSeq DEF PublisherInv, ChannelsInv
<1>4. ASSUME NEW k \in DOMAIN pipe, Publisher!SamePartition(pipe[k], i)
      PROVE  i <= pipe[k]
  <2>1. PICK l \in 1 .. k : pipe[l] = i
    BY <1>1, <1>4
  <2>2. l \in DOMAIN pipe /\ (l = k \/ l < k)
    BY <1>3, <2>1
  <2> QED
    BY <1>3, <2>1, <2>2 DEF Increasing
<1> QED
  BY <1>1, <1>2, <1>4 DEF Waiting, Range

\* The topics stay once and in order when they get that message.
LEMMA AppendsInOrder ==
  ASSUME PublisherInv, NEW i \in Publisher!Ids, Publisher!MaySend(i),
         i \notin Range(log), log' = Append(log, i)
  PROVE  /\ log' \in Seq(Publisher!Ids) /\ Range(log)' = Range(log) \cup {i}
         /\ IsInjective(log)' /\ OncePerTopicInOrder'
<1>1. log \in Seq(Publisher!Ids) /\ IsInjective(log) /\ OncePerTopicInOrder /\ OrderInv
  BY DEF PublisherInv, ChannelsInv
<1>2. /\ log' \in Seq(Publisher!Ids) /\ DOMAIN log' = 1 .. (Len(log) + 1)
      /\ DOMAIN log = 1 .. Len(log) /\ Len(log) \in Nat
      /\ \A k \in DOMAIN log : log'[k] = log[k]
      /\ log'[Len(log) + 1] = i
      /\ Range(log') = Range(log) \cup {i}
      /\ IsInjective(log')
  BY <1>1, AppendPlaces
<1>3. ASSUME NEW a \in Range(log'), NEW b \in Range(log'), Publisher!SamePartition(a, b), a < b
      PROVE  \E k, l \in DOMAIN log' : k < l /\ log'[k] = a /\ log'[l] = b
  <2>1. CASE a \in Range(log) /\ b \in Range(log)
    <3>1. \E k, l \in DOMAIN log : k < l /\ log[k] = a /\ log[l] = b
      BY <1>1, <1>3, <2>1, SetOf
      DEF OncePerTopicInOrder, Publisher!OncePerTopicInOrder, Publisher!Before
    <3> QED
      BY <1>2, <3>1
  <2>2. CASE a \in Range(log) /\ b = i
    <3>1. PICK k \in DOMAIN log : log[k] = a
      BY <2>2 DEF Range
    <3>2. k \in DOMAIN log' /\ Len(log) + 1 \in DOMAIN log' /\ k < Len(log) + 1
      BY <1>2, <3>1
    <3> QED
      BY <1>2, <2>2, <3>1, <3>2
  <2>3. CASE a = i /\ b \in Range(log)
    BY <1>1, <1>3, <2>3, FirstOfPartition DEF OrderInv
  <2>4. ~(a = i /\ b = i)
    BY <1>3, IdsAreNumbers
  <2> QED
    BY <1>2, <2>1, <2>2, <2>3, <2>4
<1>4. OncePerTopicInOrder'
  <2>1. Publisher!IsInjective(log')
    BY <1>2 DEF IsInjective, Publisher!IsInjective
  <2>2. \A a, b \in Publisher!ToSet(log') :
           Publisher!SamePartition(a, b) /\ a < b =>
             \E k, l \in DOMAIN log' : k < l /\ log'[k] = a /\ log'[l] = b
    BY <1>3, SetOf
  <2> QED
    BY <2>1, <2>2
    DEF OncePerTopicInOrder, Publisher!OncePerTopicInOrder, Publisher!Before,
        Publisher!ToSet, Publisher!IsInjective
<1> QED
  BY <1>2, <1>4

\* What a message that waits is, and what it is not.
LEMMA WaitingIsApart ==
  ASSUME PublisherInv, NEW i \in Waiting
  PROVE  /\ i \in Publisher!Ids /\ i \in Publisher!Taken
         /\ i \notin Hand(sending) \cup Won \cup Failing \cup refused \cup counted \cup drained
         /\ i # Nothing
  BY TakenIsSent, IdsAreNumbers DEF PublisherInv, ApartInv, TakenInv

\* A request reaches no broker, or its answer is lost.
LEMMA AgainTypes ==
  ASSUME PublisherInv, NEW i \in Publisher!Ids, requests[i] <= RetryMax,
         requests' = [requests EXCEPT ![i] = @ + 1]
  PROVE  /\ requests' \in [Publisher!Ids -> 0 .. (RetryMax + 1)]
         /\ \A j \in Publisher!Ids \ {i} : requests'[j] = requests[j]
<1>1. requests \in [Publisher!Ids -> 0 .. (RetryMax + 1)] /\ RetryMax \in Nat
  BY IdsAreNumbers DEF PublisherInv, Publisher!TypeOK
<1>2. requests[i] + 1 \in 0 .. (RetryMax + 1)
  BY <1>1
<1> QED
  BY <1>1, <1>2

LEMMA RequestFailsKeeps ==
  ASSUME PublisherInv, NEW i \in Publisher!Ids, Publisher!RequestFails(i)
  PROVE  PublisherInv'
<1>1. /\ Publisher!MaySend(i) /\ requests' = [requests EXCEPT ![i] = @ + 1]
      /\ UNCHANGED <<stage, cancelled, next, sending, refused, pipe, log, successes, errors,
                     won, failing, count, counted, drained>>
  BY DEF Publisher!RequestFails, Publisher!feedVars, Publisher!resultVars,
         Publisher!metricVars
<1>2. /\ i \in Waiting
      /\ requests' \in [Publisher!Ids -> 0 .. (RetryMax + 1)]
      /\ \A j \in Publisher!Ids \ {i} : requests'[j] = requests[j]
  BY <1>1, FirstOfPartition, AgainTypes
<1>3. Publisher!TypeOK'
  BY <1>1, <1>2 DEF PublisherInv, Publisher!TypeOK
<1>4. UNCHANGED <<Waiting, Won, Failing, Range(log), Publisher!Taken>>
  BY <1>1 DEF Waiting, Won, Failing, Publisher!Taken
<1>5. ChannelsInv' /\ ApartInv' /\ TakenInv' /\ OrderInv'
  BY <1>1, <1>4 DEF PublisherInv, ChannelsInv, ApartInv, TakenInv, OrderInv
<1>6. FateInv'
  <2>1. \A j \in Failing \cup counted \cup drained : requests'[j] = requests[j]
    BY <1>2, WaitingIsApart, TakenIsSent DEF PublisherInv, TakenInv
  <2> QED
    BY <1>1, <1>4, <2>1 DEF PublisherInv, FateInv
<1>7. OncePerTopicInOrder' /\ CountInv'
  BY <1>1, LogStays, CountStays
<1> QED
  BY <1>3, <1>5, <1>6, <1>7 DEF PublisherInv

LEMMA BrokerAppendsKeeps ==
  ASSUME PublisherInv, NEW i \in Publisher!Ids, Publisher!BrokerAppends(i)
  PROVE  PublisherInv'
<1>1. /\ Publisher!MaySend(i)
      /\ UNCHANGED <<stage, cancelled, next, sending, refused, errors, won, failing, count,
                     counted, drained>>
  BY DEF Publisher!BrokerAppends, Publisher!feedVars, Publisher!metricVars
<1>2. /\ i \in Waiting /\ requests[i] <= RetryMax
      /\ \A j \in Waiting : Publisher!SamePartition(j, i) => i <= j
  BY <1>1, FirstOfPartition
<1>3. /\ i \in Publisher!Ids /\ i \in Publisher!Taken /\ i \in Nat
      /\ i \notin Hand(sending) \cup Won \cup Failing \cup refused \cup counted \cup drained
  BY <1>2, WaitingIsApart, IdsAreNumbers
<1>4. /\ Publisher!TypeOK /\ ChannelsInv /\ ApartInv /\ TakenInv /\ FateInv /\ OrderInv
      /\ OncePerTopicInOrder
  BY DEF PublisherInv
<1>5. /\ log' \in Seq(Publisher!Ids) /\ Range(log)' = Range(log) \cup {i}
      /\ IsInjective(log)' /\ OncePerTopicInOrder'
  <2>1. CASE i \in Range(log)
    <3>1. log' = log
      BY <2>1, SetOf
      DEF Publisher!BrokerAppends, Publisher!EnableIdempotence, Publisher!InLog
    <3> QED
      BY <1>4, <2>1, <3>1, LogStays DEF ChannelsInv
  <2>2. CASE i \notin Range(log)
    <3>1. log' = Append(log, i)
      BY <2>2, SetOf
      DEF Publisher!BrokerAppends, Publisher!EnableIdempotence, Publisher!InLog
    <3> QED
      BY <1>1, <2>2, <3>1, AppendsInOrder
  <2> QED
    BY <2>1, <2>2
<1>6. UNCHANGED <<Failing, Publisher!Taken>> /\ Hand(sending)' = Hand(sending)
      /\ Hand(won)' = Hand(won)
  BY <1>1 DEF Failing, Publisher!Taken
<1>7. \/ /\ pipe' = Publisher!Without(pipe, i) /\ successes' = Append(successes, i)
         /\ Len(successes) < ResultSize /\ requests' = requests
      \/ /\ UNCHANGED <<pipe, successes>> /\ requests' = [requests EXCEPT ![i] = @ + 1]
  BY DEF Publisher!BrokerAppends
<1>8. /\ {pipe', successes'} \subseteq Seq(Publisher!Ids)
      /\ Increasing(pipe') /\ IsInjective(successes')
      /\ Len(pipe') <= InputSize /\ Len(successes') <= ResultSize
      /\ \/ Waiting' = Waiting \ {i} /\ Range(successes') = Range(successes) \cup {i}
         \/ Waiting' = Waiting /\ Range(successes') = Range(successes)
      /\ won' \notin Range(successes')
  <2>1. CASE UNCHANGED <<pipe, successes>>
    BY <1>1, <1>4, <2>1 DEF Publisher!TypeOK, ChannelsInv, Waiting
  <2>2. CASE /\ pipe' = Publisher!Without(pipe, i) /\ successes' = Append(successes, i)
             /\ Len(successes) < ResultSize
    <3>1. /\ pipe' \in Seq(Publisher!Ids) /\ Increasing(pipe')
          /\ Len(pipe') = Len(pipe) - 1 /\ Len(pipe) \in Nat
          /\ Waiting' = Waiting \ {i}
      BY <1>2, <1>4, <2>2, WithoutPlaces, IdsAreNumbers DEF ChannelsInv, Waiting
    <3>2. /\ successes' \in Seq(Publisher!Ids) /\ Len(successes') = Len(successes) + 1
          /\ Range(successes') = Range(successes) \cup {i} /\ IsInjective(successes')
          /\ Len(successes) \in Nat
      BY <1>3, <1>4, <2>2, AppendPlaces DEF ChannelsInv, Won
    <3>3. won # i
      BY <1>2, <1>3, WaitingIsApart DEF Won, Hand
    <3>4. Len(pipe') <= InputSize /\ Len(successes') <= ResultSize
      BY <1>4, <2>2, <3>1, <3>2, IdsAreNumbers DEF Publisher!TypeOK
    <3>5. won' \notin Range(successes')
      BY <1>1, <1>4, <3>2, <3>3 DEF ChannelsInv
    <3> QED
      BY <3>1, <3>2, <3>4, <3>5
  <2> QED
    BY <1>7, <2>1, <2>2
<1>9. /\ requests' \in [Publisher!Ids -> 0 .. (RetryMax + 1)]
      /\ \A j \in Publisher!Ids \ {i} : requests'[j] = requests[j]
  BY <1>2, <1>4, <1>7, AgainTypes DEF Publisher!TypeOK
<1>10. Publisher!TypeOK'
  <2>1. Publisher!ToSet(pipe') \cup Publisher!ToSet(log') \cup Publisher!ToSet(successes')
          \cup Publisher!ToSet(errors') \subseteq Publisher!Ids
    BY <1>1, <1>3, <1>4, <1>5, <1>8, SetOf DEF Publisher!TypeOK, Waiting
  <2> QED
    BY <1>1, <1>4, <1>8, <1>9, <2>1 DEF Publisher!TypeOK
<1>11. ChannelsInv'
  BY <1>1, <1>4, <1>5, <1>8 DEF ChannelsInv
<1>12. ApartInv' /\ TakenInv'
  <2>1. \/ Waiting' = Waiting \ {i} /\ Won' = Won \cup {i}
        \/ Waiting' = Waiting /\ Won' = Won
    BY <1>6, <1>8 DEF Won
  <2> QED
    BY <1>1, <1>2, <1>3, <1>4, <1>5, <1>6, <2>1 DEF ApartInv, TakenInv
<1>13. FateInv'
  <2>1. \A j \in Failing \cup counted \cup drained : requests'[j] = requests[j]
    BY <1>3, <1>4, <1>9, TakenIsSent DEF TakenInv
  <2>2. Won' \subseteq Won \cup {i}
    BY <1>6, <1>8 DEF Won
  <2> QED
    BY <1>1, <1>4, <1>5, <1>6, <2>1, <2>2 DEF FateInv
<1>14. OrderInv'
  <2> SUFFICES ASSUME NEW x \in Waiting', NEW j \in Range(log)',
                      Publisher!SamePartition(x, j)', x < j
               PROVE  x \in Range(log)'
    BY DEF OrderInv
  <2>1. Publisher!SamePartition(x, j)
    BY DEF Publisher!SamePartition, Publisher!Topic
  <2>2. x \in Waiting /\ x \in Nat
    BY <1>8, WaitingIsApart, IdsAreNumbers
  <2> QED
    BY <1>2, <1>3, <1>4, <1>5, <2>1, <2>2 DEF OrderInv
<1>15. CountInv'
  BY <1>1, <1>5, CountStays
<1> QED
  BY <1>5, <1>10, <1>11, <1>12, <1>13, <1>14, <1>15 DEF PublisherInv

LEMMA RetriesEndKeeps ==
  ASSUME PublisherInv, NEW i \in Publisher!Ids, Publisher!RetriesEnd(i)
  PROVE  PublisherInv'
<1>1. /\ i \in Waiting /\ requests[i] = RetryMax + 1
      /\ Len(errors) < ResultSize
      /\ errors' = Append(errors, i) /\ pipe' = Publisher!Without(pipe, i)
      /\ UNCHANGED <<stage, cancelled, next, sending, refused, requests, log, successes, won,
                     failing, count, counted, drained>>
  BY SetOf DEF Publisher!RetriesEnd, Publisher!feedVars, Publisher!metricVars, Waiting
<1>2. /\ i \in Publisher!Taken /\ i \in Nat /\ i # failing
      /\ i \notin Hand(sending) \cup Won \cup Failing \cup refused \cup counted \cup drained
  BY <1>1, WaitingIsApart, IdsAreNumbers DEF Failing, Hand
<1>3. /\ Publisher!TypeOK /\ ChannelsInv /\ ApartInv /\ TakenInv /\ FateInv /\ OrderInv
  BY DEF PublisherInv
<1>4. /\ pipe' \in Seq(Publisher!Ids) /\ Increasing(pipe')
      /\ Len(pipe') = Len(pipe) - 1 /\ Len(pipe) \in Nat
      /\ Waiting' = Waiting \ {i}
  BY <1>1, <1>3, WithoutPlaces, IdsAreNumbers DEF ChannelsInv, Waiting
<1>5. /\ errors' \in Seq(Publisher!Ids) /\ Len(errors') = Len(errors) + 1
      /\ Range(errors') = Range(errors) \cup {i} /\ IsInjective(errors')
      /\ Len(errors) \in Nat
  BY <1>1, <1>2, <1>3, AppendPlaces DEF ChannelsInv, Failing
<1>6. /\ UNCHANGED <<Won, Range(log), Publisher!Taken>> /\ Hand(sending)' = Hand(sending)
      /\ Failing' = Failing \cup {i}
  BY <1>1, <1>5 DEF Won, Failing, Publisher!Taken
<1>7. Publisher!TypeOK'
  <2>1. Publisher!ToSet(pipe') \cup Publisher!ToSet(errors') \subseteq Publisher!Ids
    BY <1>3, <1>4, <1>5, SetOf DEF Publisher!TypeOK, Waiting
  <2> QED
    BY <1>1, <1>3, <1>4, <1>5, <2>1, IdsAreNumbers DEF Publisher!TypeOK
<1>8. ChannelsInv'
  BY <1>1, <1>2, <1>3, <1>4, <1>5 DEF ChannelsInv
<1>9. ApartInv' /\ TakenInv'
  BY <1>1, <1>2, <1>3, <1>4, <1>6 DEF ApartInv, TakenInv
<1>10. FateInv' /\ OrderInv'
  BY <1>1, <1>3, <1>4, <1>6 DEF FateInv, OrderInv
<1>11. OncePerTopicInOrder' /\ CountInv'
  BY <1>1, LogStays, CountStays
<1> QED
  BY <1>7, <1>8, <1>9, <1>10, <1>11 DEF PublisherInv

-----------------------------------------------------------------------------
\* handleSuccesses and handleErrors take a result, which stays at its place.
LEMMA TakeSuccessKeeps ==
  ASSUME PublisherInv, Publisher!TakeSuccess
  PROVE  PublisherInv'
<1>1. /\ won = Nothing /\ successes # <<>> /\ won' = Head(successes)
      /\ successes' = Tail(successes)
      /\ UNCHANGED <<stage, cancelled, next, sending, refused, pipe, requests, log,
                     errors, failing, count, counted, drained>>
  BY DEF Publisher!TakeSuccess, Publisher!feedVars, Publisher!saramaVars, Publisher!metricVars
<1>2. Publisher!TypeOK /\ ChannelsInv /\ ApartInv /\ TakenInv /\ FateInv /\ OrderInv
  BY DEF PublisherInv
<1>3. /\ successes' \in Seq(Publisher!Ids) /\ Len(successes') = Len(successes) - 1
      /\ Len(successes) \in Nat /\ Head(successes) \in Range(successes)
      /\ Range(successes') = Range(successes) \ {Head(successes)} /\ IsInjective(successes')
  BY <1>1, <1>2, TailPlaces DEF ChannelsInv
<1>4. Range(successes) \subseteq Publisher!Ids
  BY <1>2, SetOf DEF Publisher!TypeOK
<1>5. Won' = Won
  BY <1>1, <1>3, <1>4, IdsAreNumbers DEF Won, Hand
<1>6. /\ UNCHANGED <<Failing, Waiting, Range(log), Publisher!Taken>>
      /\ Hand(sending)' = Hand(sending)
  BY <1>1 DEF Failing, Waiting, Publisher!Taken
<1>7. Publisher!TypeOK'
  <2>1. Publisher!ToSet(successes') \subseteq Publisher!Ids /\ won' \in Publisher!Ids
    BY <1>1, <1>3, <1>4, SetOf
  <2>2. Len(successes') <= ResultSize
    BY <1>2, <1>3, IdsAreNumbers DEF Publisher!TypeOK
  <2> QED
    BY <1>1, <1>2, <2>1, <2>2 DEF Publisher!TypeOK
<1>8. ChannelsInv'
  BY <1>1, <1>2, <1>3 DEF ChannelsInv
<1>9. ApartInv' /\ TakenInv' /\ FateInv' /\ OrderInv'
  BY <1>1, <1>2, <1>5, <1>6 DEF ApartInv, TakenInv, FateInv, OrderInv
<1>10. OncePerTopicInOrder' /\ CountInv'
  BY <1>1, LogStays, CountStays
<1> QED
  BY <1>7, <1>8, <1>9, <1>10 DEF PublisherInv

LEMMA TakeErrorKeeps ==
  ASSUME PublisherInv, Publisher!TakeError
  PROVE  PublisherInv'
<1>1. /\ failing = Nothing /\ errors # <<>> /\ failing' = Head(errors)
      /\ errors' = Tail(errors)
      /\ UNCHANGED <<stage, cancelled, next, sending, refused, pipe, requests, log,
                     successes, won, count, counted, drained>>
  BY DEF Publisher!TakeError, Publisher!feedVars, Publisher!saramaVars, Publisher!metricVars
<1>2. Publisher!TypeOK /\ ChannelsInv /\ ApartInv /\ TakenInv /\ FateInv /\ OrderInv
  BY DEF PublisherInv
<1>3. /\ errors' \in Seq(Publisher!Ids) /\ Len(errors') = Len(errors) - 1
      /\ Len(errors) \in Nat /\ Head(errors) \in Range(errors)
      /\ Range(errors') = Range(errors) \ {Head(errors)} /\ IsInjective(errors')
  BY <1>1, <1>2, TailPlaces DEF ChannelsInv
<1>4. Range(errors) \subseteq Publisher!Ids
  BY <1>2, SetOf DEF Publisher!TypeOK
<1>5. Failing' = Failing
  BY <1>1, <1>3, <1>4, IdsAreNumbers DEF Failing, Hand
<1>6. /\ UNCHANGED <<Won, Waiting, Range(log), Publisher!Taken>>
      /\ Hand(sending)' = Hand(sending)
  BY <1>1 DEF Won, Waiting, Publisher!Taken
<1>7. Publisher!TypeOK'
  <2>1. Publisher!ToSet(errors') \subseteq Publisher!Ids /\ failing' \in Publisher!Ids
    BY <1>1, <1>3, <1>4, SetOf
  <2>2. Len(errors') <= ResultSize
    BY <1>2, <1>3, IdsAreNumbers DEF Publisher!TypeOK
  <2> QED
    BY <1>1, <1>2, <2>1, <2>2 DEF Publisher!TypeOK
<1>8. ChannelsInv'
  BY <1>1, <1>2, <1>3 DEF ChannelsInv
<1>9. ApartInv' /\ TakenInv' /\ FateInv' /\ OrderInv'
  BY <1>1, <1>2, <1>5, <1>6 DEF ApartInv, TakenInv, FateInv, OrderInv
<1>10. OncePerTopicInOrder' /\ CountInv'
  BY <1>1, LogStays, CountStays
<1> QED
  BY <1>7, <1>8, <1>9, <1>10 DEF PublisherInv

\* A counter goes up by one: the message was counted, in the log (fine) or not.
LEMMA CountsOne ==
  ASSUME PublisherInv, NEW x \in Publisher!Ids, x \notin counted,
         NEW m \in Publisher!Metrics,
         m = "error" \/ x \in Range(log),
         count' = [count EXCEPT ![m] = @ + 1], counted' = counted \cup {x},
         UNCHANGED <<log, refused>>
  PROVE  CountInv' /\ count' \in [Publisher!Metrics -> Nat]
<1>1. PICK S \in SUBSET (counted \cap Range(log)) :
           /\ count["tick"] + count["orderbook"] = Cardinality(S)
           /\ count["error"] = Cardinality(counted \ S) + Cardinality(refused)
  BY DEF PublisherInv, CountInv
<1>2. /\ count \in [Publisher!Metrics -> Nat]
      /\ {"tick", "orderbook", "error"} = Publisher!Metrics
  BY DEF PublisherInv, Publisher!TypeOK, Publisher!Metrics
<1>3. /\ IsFiniteSet(S) /\ IsFiniteSet(counted \ S)
      /\ Cardinality(S) \in Nat /\ Cardinality(counted \ S) \in Nat
      /\ Cardinality(refused) \in Nat
  BY HistoriesAreFinite, FS_CardinalityType
<1>4. ASSUME m = "error"
      PROVE  CountInv'
  <2>1. counted' \ S = (counted \ S) \cup {x} /\ x \notin counted \ S
    BY <1>1
  <2>2. Cardinality(counted' \ S) = Cardinality(counted \ S) + 1
    BY <1>3, <2>1, FS_AddElement
  <2>3. count'["error"] = count["error"] + 1 /\ count'["tick"] = count["tick"]
        /\ count'["orderbook"] = count["orderbook"]
    BY <1>2, <1>4
  <2>4. S \in SUBSET (counted' \cap Range(log)')
    BY <1>1
  <2>5. count'["error"] = Cardinality(counted' \ S) + Cardinality(refused')
    BY <1>1, <1>3, <2>2, <2>3
  <2> QED
    BY <1>1, <2>3, <2>4, <2>5 DEF CountInv
<1>5. ASSUME m # "error"
      PROVE  CountInv'
  <2> DEFINE T == S \cup {x}
  <2>1. counted' \ T = counted \ S /\ T \in SUBSET (counted' \cap Range(log)')
    BY <1>1, <1>5
  <2>2. Cardinality(T) = Cardinality(S) + 1
    BY <1>1, <1>3, FS_AddElement
  <2>3. count'["error"] = count["error"]
        /\ count'["tick"] + count'["orderbook"] = count["tick"] + count["orderbook"] + 1
    BY <1>2, <1>5
  <2>4. count'["tick"] + count'["orderbook"] = Cardinality(T)
        /\ count'["error"] = Cardinality(counted' \ T) + Cardinality(refused')
    BY <1>1, <1>3, <2>1, <2>2, <2>3
  <2> HIDE DEF T
  <2> QED
    BY <2>1, <2>4 DEF CountInv
<1>6. count' \in [Publisher!Metrics -> Nat]
  BY <1>2
<1> QED
  BY <1>4, <1>5, <1>6

LEMMA HandleSuccessKeeps ==
  ASSUME PublisherInv, Publisher!HandleSuccess
  PROVE  PublisherInv'
<1>1. /\ won # Nothing /\ won' = Nothing
      /\ count' = [count EXCEPT ![Publisher!Topic(won)] = @ + 1]
      /\ counted' = counted \cup {won}
      /\ UNCHANGED <<stage, cancelled, next, sending, refused, pipe, requests, log,
                     successes, errors, failing, drained>>
  BY DEF Publisher!HandleSuccess, Publisher!feedVars, Publisher!saramaVars
<1>2. Publisher!TypeOK /\ ChannelsInv /\ ApartInv /\ TakenInv /\ FateInv /\ OrderInv
  BY DEF PublisherInv
<1>3. /\ won \in Publisher!Ids /\ won \in Won /\ won \notin counted
      /\ won \in Publisher!Taken
  BY <1>1, <1>2 DEF Publisher!TypeOK, ApartInv, TakenInv, Won, Hand
<1>4. Publisher!Topic(won) \in Publisher!Metrics /\ won \in Range(log)
  BY <1>1, <1>2, <1>3, TakenIsSent DEF FateInv, Publisher!Metrics
<1>5. CountInv' /\ count' \in [Publisher!Metrics -> Nat]
  BY <1>1, <1>3, <1>4, CountsOne
<1>6. /\ UNCHANGED <<Failing, Waiting, Range(log), Publisher!Taken>>
      /\ Hand(sending)' = Hand(sending)
      /\ Won' = Won \ {won}
  BY <1>1, <1>2 DEF Won, Failing, Waiting, Publisher!Taken, Hand, ChannelsInv
<1>7. Publisher!TypeOK' /\ ChannelsInv'
  <2>1. won' \notin Publisher!Ids /\ Range(successes) \subseteq Publisher!Ids
    BY <1>1, <1>2, IdsAreNumbers, SetOf DEF Publisher!TypeOK
  <2> QED
    BY <1>1, <1>2, <1>3, <1>5, <2>1 DEF Publisher!TypeOK, ChannelsInv
<1>8. ApartInv' /\ TakenInv' /\ OrderInv'
  BY <1>1, <1>2, <1>3, <1>6 DEF ApartInv, TakenInv, OrderInv
<1>9. FateInv'
  BY <1>1, <1>2, <1>3, <1>6 DEF FateInv
<1>10. OncePerTopicInOrder'
  BY <1>1, LogStays
<1> QED
  BY <1>5, <1>7, <1>8, <1>9, <1>10 DEF PublisherInv

LEMMA HandleErrorKeeps ==
  ASSUME PublisherInv, Publisher!HandleError
  PROVE  PublisherInv'
<1>1. /\ failing # Nothing /\ failing' = Nothing
      /\ count' = [count EXCEPT !["error"] = @ + 1] /\ counted' = counted \cup {failing}
      /\ UNCHANGED <<stage, cancelled, next, sending, refused, pipe, requests, log,
                     successes, errors, won, drained>>
  BY DEF Publisher!HandleError, Publisher!feedVars, Publisher!saramaVars
<1>2. Publisher!TypeOK /\ ChannelsInv /\ ApartInv /\ TakenInv /\ FateInv /\ OrderInv
  BY DEF PublisherInv
<1>3. /\ failing \in Publisher!Ids /\ failing \in Failing /\ failing \notin counted
      /\ failing \in Publisher!Taken
  BY <1>1, <1>2 DEF Publisher!TypeOK, ApartInv, TakenInv, Failing, Hand
<1>4. "error" \in Publisher!Metrics /\ ("error" = "error" \/ failing \in Range(log))
  BY <1>1, <1>2, <1>3, TakenIsSent DEF FateInv, Publisher!Metrics
<1>5. CountInv' /\ count' \in [Publisher!Metrics -> Nat]
  BY <1>1, <1>3, <1>4, CountsOne
<1>6. /\ UNCHANGED <<Won, Waiting, Range(log), Publisher!Taken>>
      /\ Hand(sending)' = Hand(sending)
      /\ Failing' = Failing \ {failing}
  BY <1>1, <1>2 DEF Won, Failing, Waiting, Publisher!Taken, Hand, ChannelsInv
<1>7. Publisher!TypeOK' /\ ChannelsInv'
  <2>1. failing' \notin Publisher!Ids /\ Range(errors) \subseteq Publisher!Ids
    BY <1>1, <1>2, IdsAreNumbers, SetOf DEF Publisher!TypeOK
  <2> QED
    BY <1>1, <1>2, <1>3, <1>5, <2>1 DEF Publisher!TypeOK, ChannelsInv
<1>8. ApartInv' /\ TakenInv' /\ OrderInv'
  BY <1>1, <1>2, <1>3, <1>6 DEF ApartInv, TakenInv, OrderInv
<1>9. FateInv'
  BY <1>1, <1>2, <1>3, <1>6 DEF FateInv
<1>10. OncePerTopicInOrder'
  BY <1>1, LogStays
<1> QED
  BY <1>5, <1>7, <1>8, <1>9, <1>10 DEF PublisherInv

\* Close reads the channels itself.
LEMMA DrainSuccessKeeps ==
  ASSUME PublisherInv,
         successes # <<>>, successes' = Tail(successes),
         drained' = drained \cup {Head(successes)},
         UNCHANGED <<stage, cancelled, next, sending, refused, pipe, requests, log,
                     errors, won, failing, count, counted>>
  PROVE  PublisherInv'
<1>1. Publisher!TypeOK /\ ChannelsInv /\ ApartInv /\ TakenInv /\ FateInv /\ OrderInv
  BY DEF PublisherInv
<1>2. /\ successes' \in Seq(Publisher!Ids) /\ Len(successes') = Len(successes) - 1
      /\ Len(successes) \in Nat /\ Head(successes) \in Range(successes)
      /\ Range(successes') = Range(successes) \ {Head(successes)} /\ IsInjective(successes')
  BY <1>1, TailPlaces DEF ChannelsInv
<1>3. Range(successes) \subseteq Publisher!Ids
  BY <1>1, SetOf DEF Publisher!TypeOK
<1>4. /\ UNCHANGED <<Failing, Waiting, Range(log), Publisher!Taken>>
      /\ Hand(sending)' = Hand(sending)
      /\ Head(successes) \in Won /\ Won' = Won \ {Head(successes)}
  BY <1>1, <1>2 DEF Won, Failing, Waiting, Publisher!Taken, Hand, ChannelsInv
<1>5. Publisher!TypeOK'
  <2>1. Publisher!ToSet(successes') \subseteq Publisher!Ids
    BY <1>2, <1>3, SetOf
  <2>2. Len(successes') <= ResultSize
    BY <1>1, <1>2, IdsAreNumbers DEF Publisher!TypeOK
  <2>3. drained' \subseteq Publisher!Ids
    BY <1>1, <1>2, <1>3 DEF Publisher!TypeOK
  <2> QED
    BY <1>1, <2>1, <2>2, <2>3 DEF Publisher!TypeOK
<1>6. ChannelsInv'
  BY <1>1, <1>2 DEF ChannelsInv
<1>7. ApartInv' /\ TakenInv' /\ OrderInv'
  BY <1>1, <1>4 DEF ApartInv, TakenInv, OrderInv
<1>8. FateInv'
  BY <1>1, <1>4 DEF FateInv
<1>9. OncePerTopicInOrder' /\ CountInv'
  BY LogStays, CountStays
<1> QED
  BY <1>5, <1>6, <1>7, <1>8, <1>9 DEF PublisherInv

LEMMA DrainErrorKeeps ==
  ASSUME PublisherInv,
         errors # <<>>, errors' = Tail(errors),
         drained' = drained \cup {Head(errors)},
         UNCHANGED <<stage, cancelled, next, sending, refused, pipe, requests, log,
                     successes, won, failing, count, counted>>
  PROVE  PublisherInv'
<1>1. Publisher!TypeOK /\ ChannelsInv /\ ApartInv /\ TakenInv /\ FateInv /\ OrderInv
  BY DEF PublisherInv
<1>2. /\ errors' \in Seq(Publisher!Ids) /\ Len(errors') = Len(errors) - 1
      /\ Len(errors) \in Nat /\ Head(errors) \in Range(errors)
      /\ Range(errors') = Range(errors) \ {Head(errors)} /\ IsInjective(errors')
  BY <1>1, TailPlaces DEF ChannelsInv
<1>3. Range(errors) \subseteq Publisher!Ids
  BY <1>1, SetOf DEF Publisher!TypeOK
<1>4. /\ UNCHANGED <<Won, Waiting, Range(log), Publisher!Taken>>
      /\ Hand(sending)' = Hand(sending)
      /\ Head(errors) \in Failing /\ Failing' = Failing \ {Head(errors)}
  BY <1>1, <1>2 DEF Won, Failing, Waiting, Publisher!Taken, Hand, ChannelsInv
<1>5. Publisher!TypeOK'
  <2>1. Publisher!ToSet(errors') \subseteq Publisher!Ids
    BY <1>2, <1>3, SetOf
  <2>2. Len(errors') <= ResultSize
    BY <1>1, <1>2, IdsAreNumbers DEF Publisher!TypeOK
  <2>3. drained' \subseteq Publisher!Ids
    BY <1>1, <1>2, <1>3 DEF Publisher!TypeOK
  <2> QED
    BY <1>1, <2>1, <2>2, <2>3 DEF Publisher!TypeOK
<1>6. ChannelsInv'
  BY <1>1, <1>2 DEF ChannelsInv
<1>7. ApartInv' /\ TakenInv' /\ OrderInv'
  BY <1>1, <1>4 DEF ApartInv, TakenInv, OrderInv
<1>8. FateInv'
  BY <1>1, <1>4 DEF FateInv
<1>9. OncePerTopicInOrder' /\ CountInv'
  BY LogStays, CountStays
<1> QED
  BY <1>5, <1>6, <1>7, <1>8, <1>9 DEF PublisherInv

-----------------------------------------------------------------------------
LEMMA InitPublisherInv == Publisher!Init => PublisherInv
<1> SUFFICES ASSUME Publisher!Init
             PROVE  PublisherInv
  OBVIOUS
<1>1. /\ stage = "running" /\ cancelled = FALSE /\ next = 1 /\ sending = Nothing
      /\ pipe = <<>> /\ requests = [i \in Publisher!Ids |-> 0] /\ log = <<>>
      /\ successes = <<>> /\ errors = <<>> /\ won = Nothing /\ failing = Nothing
      /\ count = [m \in Publisher!Metrics |-> 0]
      /\ refused = {} /\ drained = {} /\ counted = {}
  BY DEF Publisher!Init, Publisher!InitAt
<1>2. Range(<<>>) = {} /\ <<>> \in Seq(Publisher!Ids) /\ Len(<<>>) = 0 /\ DOMAIN <<>> = {}
  BY EmptySeq DEF Range
<1>3. Waiting = {} /\ Won = {} /\ Failing = {} /\ Hand(sending) = {} /\ Range(log) = {}
  BY <1>1, <1>2 DEF Waiting, Won, Failing, Hand
<1>4. Publisher!Taken = {}
  BY <1>1, IdsAreNumbers DEF Publisher!Taken
<1>5. Publisher!TypeOK
  <2>1. next \in 1 .. (Len(Frames) + 1)
    BY <1>1, PublisherIsAssumed DEF Publisher!PublisherAssumption
  <2>2. /\ requests \in [Publisher!Ids -> 0 .. (RetryMax + 1)]
        /\ count \in [Publisher!Metrics -> Nat]
    BY <1>1, IdsAreNumbers
  <2>3. Publisher!ToSet(pipe) \cup Publisher!ToSet(log) \cup Publisher!ToSet(successes)
          \cup Publisher!ToSet(errors) \subseteq Publisher!Ids
    BY <1>1, <1>2, SetOf
  <2>4. Len(pipe) <= InputSize /\ Len(successes) <= ResultSize /\ Len(errors) <= ResultSize
    BY <1>1, <1>2, IdsAreNumbers
  <2> QED
    BY <1>1, <2>1, <2>2, <2>3, <2>4 DEF Publisher!TypeOK
<1>6. ChannelsInv
  BY <1>1, <1>2 DEF ChannelsInv, Increasing, IsInjective
<1>7. ApartInv /\ TakenInv /\ FateInv /\ OrderInv
  BY <1>1, <1>3, <1>4 DEF ApartInv, TakenInv, FateInv, OrderInv
<1>8. OncePerTopicInOrder
  BY <1>1, <1>2, SetOf
  DEF OncePerTopicInOrder, Publisher!OncePerTopicInOrder, Publisher!IsInjective
<1>9. CountInv
  <2>1. {} \in SUBSET (counted \cap Range(log)) /\ Cardinality({}) = 0 /\ counted \ {} = {}
    BY <1>1, FS_EmptySet
  <2>2. count["tick"] = 0 /\ count["orderbook"] = 0 /\ count["error"] = 0
    BY <1>1 DEF Publisher!Metrics
  <2> QED
    BY <1>1, <2>1, <2>2 DEF CountInv
<1> QED
  BY <1>5, <1>6, <1>7, <1>8, <1>9 DEF PublisherInv

LEMMA NextPublisherInv == PublisherInv /\ [Publisher!Next]_(Publisher!vars) => PublisherInv'
<1> SUFFICES ASSUME PublisherInv, [Publisher!Next]_(Publisher!vars)
             PROVE  PublisherInv'
  OBVIOUS
<1>1. CASE Publisher!ProcessorStep
  BY <1>1, SkipMessageKeeps, StartSendKeeps, SendAcceptedKeeps, SendRefusedKeeps
  DEF Publisher!ProcessorStep
<1>2. CASE Publisher!SaramaStep
  BY <1>2, BrokerAppendsKeeps, RequestFailsKeeps, RetriesEndKeeps DEF Publisher!SaramaStep
<1>3. CASE Publisher!TakeSuccess \/ Publisher!HandleSuccess
           \/ Publisher!TakeError \/ Publisher!HandleError
  BY <1>3, TakeSuccessKeeps, HandleSuccessKeeps, TakeErrorKeeps, HandleErrorKeeps
<1>4. CASE Publisher!SaramaCloseDrains
  BY <1>4, DrainSuccessKeeps, DrainErrorKeeps
  DEF Publisher!SaramaCloseDrains, Publisher!feedVars, Publisher!saramaVars,
      Publisher!metricVars
<1>5. CASE \/ Publisher!ProcessorEnds \/ Publisher!Signal \/ Publisher!CloseProducer
           \/ Publisher!CloseReturns \/ Publisher!Exit \/ Publisher!ForceExit
           \/ UNCHANGED Publisher!vars
  BY <1>5, MainStepKeeps
<1> QED
  BY <1>1, <1>2, <1>3, <1>4, <1>5 DEF Publisher!Next, Publisher!MainStep

\* The messages in the log are no more than its length.
LEMMA LogIsLongEnough ==
  ASSUME PublisherInv, NEW S \in SUBSET Range(log)
  PROVE  Cardinality(S) <= Len(log)
<1>1. log \in Seq(Publisher!Ids) /\ Range(log) \subseteq Publisher!Ids
  BY SetOf DEF PublisherInv, ChannelsInv, Publisher!TypeOK
<1>2. /\ Len(log) \in Nat /\ DOMAIN log = 1 .. Len(log)
      /\ log \in [1 .. Len(log) -> Publisher!Ids]
  BY <1>1, LenProperties
<1>3. log \in Surjection(1 .. Len(log), Range(log))
  BY <1>2 DEF Surjection, Range
<1>4. Cardinality(Range(log)) <= Len(log)
  BY <1>2, <1>3, FS_SurjCardinalityBound DEF ExistsSurjection
<1>5. IsFiniteSet(Range(log))
  BY <1>1, IdsAreNumbers, FS_Subset
<1>6. /\ Cardinality(S) <= Cardinality(Range(log))
      /\ Cardinality(S) \in Nat /\ Cardinality(Range(log)) \in Nat
  BY <1>5, FS_Subset, FS_CardinalityType
<1> QED
  BY <1>2, <1>4, <1>6

LEMMA AccountedFor == PublisherInv => EveryMessageAccounted
<1> SUFFICES ASSUME PublisherInv
             PROVE  EveryMessageAccounted
  OBVIOUS
<1>1. Publisher!TypeOK /\ ApartInv /\ TakenInv /\ FateInv
  BY DEF PublisherInv
<1>2. Publisher!Unfinished = Hand(sending) \cup Waiting \cup Won \cup Failing
  BY SetOf DEF Publisher!Unfinished, Waiting, Won, Failing, Hand
<1>3. Publisher!Taken = Publisher!Unfinished \cup refused \cup counted \cup drained
  BY <1>1, <1>2 DEF TakenInv
<1>4. \A i \in Publisher!Taken \ (Publisher!Unfinished \cup refused) :
        Publisher!InLog(i) \/ requests[i] = RetryMax + 1
  BY <1>1, <1>3, SetOf DEF FateInv, Publisher!InLog
<1>5. /\ count["tick"] + count["orderbook"] + count["error"]
           = Cardinality(counted) + Cardinality(refused)
      /\ count["tick"] + count["orderbook"] <= Len(log)
  <2>1. PICK S \in SUBSET (counted \cap Range(log)) :
             /\ count["tick"] + count["orderbook"] = Cardinality(S)
             /\ count["error"] = Cardinality(counted \ S) + Cardinality(refused)
    BY DEF PublisherInv, CountInv
  <2>2. IsFiniteSet(S) /\ IsFiniteSet(counted \ S) /\ IsFiniteSet(refused)
    BY HistoriesAreFinite
  <2>3. /\ S \cup (counted \ S) = counted /\ S \cap (counted \ S) = {}
    BY <2>1
  <2>4. Cardinality(counted) = Cardinality(S) + Cardinality(counted \ S) - Cardinality({})
    BY <2>2, <2>3, FS_Union
  <2>5. /\ Cardinality({}) = 0 /\ Cardinality(S) \in Nat /\ Cardinality(counted \ S) \in Nat
        /\ Cardinality(refused) \in Nat
    BY <2>2, FS_EmptySet, FS_CardinalityType
  <2> QED
    BY <2>1, <2>4, <2>5, LogIsLongEnough
<1> QED
  BY <1>1, <1>3, <1>4, <1>5, SameCardinality
  DEF EveryMessageAccounted, Publisher!EveryMessageAccounted

\* Spec of the publisher keeps the places of the messages, the order and the counters.
THEOREM PublisherInvInvariant == Publisher!Spec => []PublisherInv
  BY InitPublisherInv, NextPublisherInv, PTL DEF Publisher!Spec

\* However requests, answers and retries interleave, a topic carries a message once,
\* and the messages of one symbol in the order KIS sent them (config.go:186,
\* market_producer.go:56).
THEOREM OncePerTopicInOrderInvariant == Publisher!Spec => []OncePerTopicInOrder
<1>1. PublisherInv => OncePerTopicInOrder
  BY DEF PublisherInv
<1> QED
  BY <1>1, PublisherInvInvariant, PTL

\* No message the processor took is forgotten, not even by Close, and the counters of
\* MarketProducer miss only what Close drained (market_producer.go, producer.go:127-136).
THEOREM EveryMessageAccountedInvariant == Publisher!Spec => []EveryMessageAccounted
  BY AccountedFor, PublisherInvInvariant, PTL
=============================================================================
