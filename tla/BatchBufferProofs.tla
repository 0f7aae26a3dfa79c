-------------------------- MODULE BatchBufferProofs --------------------------
(***************************************************************************)
(* Proofs about BatchBuffer for any number of goroutines that add, any     *)
(* batch size and any retry limits.  That the table has exactly one row    *)
(* for each message whose flush succeeded needs to know where a message    *)
(* is: the messages flushed, those of the batch, those in the buffer and   *)
(* those on their way into it are four sets that have nothing in common,   *)
(* so that no batch is written that was written before.                    *)
(***************************************************************************)
EXTENDS BatchBuffer, SequenceTheorems, TLAPS

Held == Range(flushed) \cup Range(batch) \cup Range(buffer)

\* A message is in one place only.
Apart ==
  /\ Range(flushed) \cap Range(batch) = {}
  /\ Range(flushed) \cap Range(buffer) = {}
  /\ Range(batch) \cap Range(buffer) = {}
  /\ \A a \in Adders : adding[a] # NoMessage => adding[a] \notin Held
  /\ \A a, b \in Adders : adding[a] = adding[b] /\ adding[a] # NoMessage => a = b

\* The rows of the table, message by message.
RowsInv ==
  /\ failed \subseteq Range(flushed)
  /\ ~unclear => \A m \in Messages :
                   rows[m] = IF m \in Range(flushed) \ failed THEN 1 ELSE 0

\* What the buffer keeps for any callers, those that add a message twice included.
Ordered == BufferAssumption /\ TypeOK /\ NothingLostInside
Sound == Ordered /\ MemoryBounded /\ FullIsSignalled

IInv == Ordered /\ Apart /\ RowsInv

\* The steps of a buffer whose callers add what they like.
AnyStep == \/ \E a \in Adders : \/ \E m \in Messages : AddCheck(a, m)
                                \/ AddLocked(a)
           \/ FlusherStep
           \/ TickerFires
           \/ Flush \/ Stop \/ CancelContext

LEMMA NextIsAnyStep == [Next]_vars => [AnyStep]_vars
  BY DEF Next, AnyStep

-----------------------------------------------------------------------------
LEMMA RangeEmpty == Range(<< >>) = {}
  BY DEF Range

LEMMA RangeAppend ==
  ASSUME NEW S, NEW s \in Seq(S), NEW x \in S
  PROVE  Range(Append(s, x)) = Range(s) \cup {x}
<1>1. /\ DOMAIN s = 1..Len(s) /\ DOMAIN Append(s, x) = 1..(Len(s) + 1)
      /\ \A i \in 1..Len(s) : Append(s, x)[i] = s[i]
      /\ Append(s, x)[Len(s) + 1] = x /\ Len(s) \in Nat
  BY AppendProperties, LenProperties
<1> QED
  BY <1>1 DEF Range

LEMMA RangeType ==
  ASSUME NEW S, NEW s \in Seq(S)
  PROVE  Range(s) \subseteq S
  BY ElementOfSeq, LenProperties DEF Range

\* Appending to the buffer appends to what was accepted.
LEMMA ConcatAppend ==
  \A s, t, u \in Seq(Messages) : \A x \in Messages :
    Append(s \o t \o u, x) = s \o t \o Append(u, x)
<1> SUFFICES ASSUME NEW s \in Seq(Messages), NEW t \in Seq(Messages),
                    NEW u \in Seq(Messages), NEW x \in Messages
             PROVE  Append(s \o t \o u, x) = s \o t \o Append(u, x)
  OBVIOUS
<1>1. s \o t \in Seq(Messages) /\ <<x>> \in Seq(Messages)
  BY ConcatProperties
<1>2. s \o t \o u \in Seq(Messages)
  BY <1>1, ConcatProperties
<1>3. Append(s \o t \o u, x) = s \o t \o u \o <<x>>
  BY <1>2, AppendIsConcat
<1>4. Append(u, x) = u \o <<x>>
  BY AppendIsConcat
<1>5. s \o t \o u \o <<x>> = s \o t \o (u \o <<x>>)
  BY <1>1, ConcatAssociative
<1> QED
  BY <1>3, <1>4, <1>5, Zenon

LEMMA RangeConcat ==
  ASSUME NEW S, NEW s \in Seq(S), NEW t \in Seq(S), NEW u \in Seq(S)
  PROVE  Range(s \o t \o u) = Range(s) \cup Range(t) \cup Range(u)
<1>1. \A v \in Seq(S) : Range(v \o u) = Range(v) \cup Range(u)
  BY RangeConcatenation
<1>2. s \o t \in Seq(S) /\ Range(s \o t) = Range(s) \cup Range(t)
  BY ConcatProperties, RangeConcatenation
<1>3. Range(s \o t \o u) = Range(s \o t) \cup Range(u)
  BY <1>1, <1>2, Zenon
<1> QED
  BY <1>2, <1>3, Zenon

\* What was accepted is what is held.
LEMMA AcceptedIsHeld ==
  ASSUME Ordered
  PROVE  Range(accepted) = Held
<1>1. flushed \in Seq(Messages) /\ batch \in Seq(Messages) /\ buffer \in Seq(Messages)
  BY DEF Ordered, TypeOK
<1>2. Range(flushed \o batch \o buffer) = Held
  BY <1>1, RangeConcat DEF Held
<1> QED
  BY <1>2 DEF Ordered, NothingLostInside

\* A buffer begins sound, wherever its flusher is as long as it writes nothing.
LEMMA InitAtOrdered ==
  ASSUME BufferAssumption, NEW f \in {"select", "done"}, NEW t \in BOOLEAN,
         NEW old \in 0..2, InitAt(f, t, old)
  PROVE  Sound /\ IInv
<1> USE DEF InitAt
<1>1. TypeOK
  <2>1. /\ buffer \in Seq(Messages) /\ batch \in Seq(Messages)
        /\ accepted \in Seq(Messages) /\ flushed \in Seq(Messages)
    BY EmptySeq
  <2>2. tries \in 0..(MaxRetries - 1) /\ round \in 0..(FinalRetries - 1)
    BY DEF BufferAssumption
  <2>3. adding \in [Adders -> Messages \cup {NoMessage}] /\ rows \in [Messages -> Nat]
    OBVIOUS
  <2>4. /\ flushCh \in BOOLEAN /\ ticked \in BOOLEAN
        /\ running \in BOOLEAN /\ ctxDone \in BOOLEAN /\ forced \in BOOLEAN
        /\ unclear \in BOOLEAN
    BY Zenon
  <2>5. age \in 0..2 /\ failed \subseteq Messages /\ dropped \subseteq Messages
    OBVIOUS
  <2>6. fpc \in FlusherPC /\ (batch # << >> <=> fpc \in {"write", "finalWrite"})
    BY DEF FlusherPC
  <2> QED
    BY <2>1, <2>2, <2>3, <2>4, <2>5, <2>6 DEF TypeOK
<1>2. NothingLostInside
  BY DEF NothingLostInside
<1>3. Apart /\ RowsInv
  BY RangeEmpty DEF Apart, RowsInv, Held
<1>4. MemoryBounded /\ FullIsSignalled
  BY EmptySeq DEF BufferAssumption, MemoryBounded, FullIsSignalled
<1> QED
  BY <1>1, <1>2, <1>3, <1>4 DEF Ordered, Sound, IInv

LEMMA InitOrdered == BufferAssumption /\ Init => Sound /\ IInv
<1>1. "select" \in {"select", "done"} /\ FALSE \in BOOLEAN /\ 0 \in 0..2
  OBVIOUS
<1> QED
  BY <1>1, InitAtOrdered, Zenon DEF Init

-----------------------------------------------------------------------------
\* An Add keeps the types and the order, whatever it adds.
LEMMA AddCheckOrdered ==
  ASSUME Ordered, NEW a \in Adders, NEW m \in Messages, AddCheck(a, m)
  PROVE  Ordered'
<1>1. UNCHANGED <<buffer, batch, flushed, accepted>>
  BY DEF AddCheck, bufferVars, flusherVars
<1>2. TypeOK'
  BY DEF AddCheck, Ordered, TypeOK, bufferVars, flusherVars, tableVars, controlVars
<1> QED
  BY <1>1, <1>2 DEF Ordered, NothingLostInside

LEMMA AddLockedOrdered ==
  ASSUME Ordered, NEW a \in Adders, AddLocked(a)
  PROVE  Ordered'
<1>1. /\ UNCHANGED <<batch, flushed>>
      /\ adding' = [adding EXCEPT ![a] = NoMessage]
      /\ adding[a] \in Messages
  BY DEF AddLocked, Ordered, TypeOK, flusherVars
<1>2. CASE UNCHANGED bufferVars
  <2>1. TypeOK'
    BY <1>2 DEF AddLocked, Ordered, TypeOK, bufferVars, flusherVars, tableVars, controlVars
  <2> QED
    BY <1>1, <1>2, <2>1 DEF Ordered, NothingLostInside, bufferVars
<1>3. CASE buffer' = Append(buffer, adding[a]) /\ accepted' = Append(accepted, adding[a])
  <2>1. TypeOK'
    <3>1. /\ buffer' \in Seq(Messages) /\ accepted' \in Seq(Messages)
          /\ adding' \in [Adders -> Messages \cup {NoMessage}]
      BY <1>1, <1>3, AppendProperties DEF Ordered, TypeOK
    <3>2. /\ flushCh' \in BOOLEAN /\ dropped' \subseteq Messages /\ age' = age
          /\ UNCHANGED <<ticked, flusherVars, tableVars, controlVars>>
      BY <1>1 DEF AddLocked, Ordered, TypeOK, bufferVars
    <3> QED
      BY <3>1, <3>2 DEF Ordered, TypeOK, flusherVars, tableVars, controlVars
  <2>2. NothingLostInside'
    <3>1. flushed \in Seq(Messages) /\ batch \in Seq(Messages)
      BY DEF Ordered, TypeOK
    <3>2. /\ buffer \in Seq(Messages) /\ adding[a] \in Messages
          /\ accepted = flushed \o batch \o buffer
      BY <1>1 DEF Ordered, TypeOK, NothingLostInside
    <3>3. Append(flushed \o batch \o buffer, adding[a])
            = flushed \o batch \o Append(buffer, adding[a])
      BY <3>1, <3>2, ConcatAppend, Zenon
    <3> QED
      BY <1>1, <1>3, <3>2, <3>3 DEF NothingLostInside
  <2> QED
    BY <2>1, <2>2 DEF Ordered
<1> QED
  BY <1>2, <1>3 DEF AddLocked

\* The flusher's steps keep the types; batch is empty unless it is being written.
LEMMA FlusherTypeOK == BufferAssumption /\ TypeOK /\ FlusherStep => TypeOK'
<1> SUFFICES ASSUME BufferAssumption, TypeOK, FlusherStep
             PROVE  TypeOK'
  OBVIOUS
<1> USE DEF BufferAssumption, TypeOK, FlusherPC, bufferVars, flusherVars, tableVars, addVars, controlVars
<1>1. CASE SelectEnd
  BY <1>1 DEF SelectEnd, FlusherAt
<1>2. CASE SelectTick
  BY <1>2 DEF SelectTick, FlusherAt
<1>3. CASE SelectFlush
  BY <1>3 DEF SelectFlush, FlusherAt
<1>4. CASE CheckAndFlush
  <2>1. /\ fpc = "check"
        /\ UNCHANGED <<flushCh, accepted, ticked, forced, tries, round, flushed, failed,
                       tableVars, addVars, controlVars>>
    BY <1>4 DEF CheckAndFlush
  <2>2. ASSUME NEW old,
               IF buffer # << >> /\ ShouldFlush(old)
               THEN TakeBatch("write") /\ age' = 0
               ELSE fpc' = "select" /\ UNCHANGED <<batch, buffer, age>>
        PROVE  TypeOK'
    <3>1. \/ buffer # << >> /\ TakeBatch("write") /\ age' = 0
          \/ fpc' = "select" /\ UNCHANGED <<batch, buffer, age>>
      BY <2>2
    <3>2. CASE buffer # << >> /\ TakeBatch("write") /\ age' = 0
      BY <2>1, <3>2, EmptySeq DEF TakeBatch
    <3>3. CASE fpc' = "select" /\ UNCHANGED <<batch, buffer, age>>
      BY <2>1, <3>3
    <3> QED
      BY <3>1, <3>2, <3>3
  <2> QED
    BY <1>4, <2>2 DEF CheckAndFlush
<1>5. CASE FinalTake
  BY <1>5 DEF FinalTake, TakeBatch
<1>6. /\ Range(batch) \subseteq Messages /\ flushed \o batch \in Seq(Messages)
      /\ AddRows => rows' \in [Messages -> Nat]
  BY RangeType, ConcatProperties DEF AddRows
<1>7. CASE WriteCommits
  BY <1>6, <1>7 DEF WriteCommits, FlushOver
<1>8. ASSUME fpc \in {"write", "finalWrite"}, AttemptFails
      PROVE  /\ fpc' \in FlusherPC /\ batch' \in Seq(Messages)
             /\ batch' # << >> <=> fpc' \in {"write", "finalWrite"}
             /\ tries' \in 0..(MaxRetries - 1) /\ round' \in 0..(FinalRetries - 1)
             /\ flushed' \in Seq(Messages) /\ failed' \subseteq Messages
  <2>1. CASE tries + 1 < MaxRetries
    BY <1>8, <2>1 DEF AttemptFails
  <2>2. CASE tries + 1 >= MaxRetries /\ fpc = "finalWrite" /\ round + 1 < FinalRetries
    BY <1>8, <2>2 DEF AttemptFails, CallbackFails
  <2>3. CASE FlushOver(TRUE)
    BY <1>6, <1>8, <2>3 DEF FlushOver
  <2>4. CASE ~(tries + 1 < MaxRetries) /\ ~(fpc = "finalWrite" /\ round + 1 < FinalRetries)
    BY <1>8, <2>3, <2>4 DEF AttemptFails, CallbackFails
  <2> QED
    BY <2>1, <2>2, <2>4
<1>9. CASE WriteFails
  BY <1>8, <1>9 DEF WriteFails
<1>10. CASE WriteUnclear
  BY <1>6, <1>8, <1>10 DEF WriteUnclear
<1> QED
  BY <1>1, <1>2, <1>3, <1>4, <1>5, <1>7, <1>9, <1>10 DEF FlusherStep


\* What the flusher moves: the buffer into the batch, the batch to what is flushed, or
\* nothing.
Taken == buffer # << >> /\ batch = << >> /\ buffer' = << >> /\ batch' = buffer
         /\ UNCHANGED <<flushed, failed>>
Over(bad) == batch # << >> /\ FlushOver(bad) /\ UNCHANGED buffer
Unmoved == UNCHANGED <<buffer, batch, flushed, failed>>

LEMMA FlusherMoves ==
  ASSUME TypeOK, FlusherStep
  PROVE  /\ \/ Taken /\ UNCHANGED tableVars
            \/ Unmoved /\ UNCHANGED tableVars
            \/ Unmoved /\ unclear' /\ AddRows
            \/ Over(FALSE) /\ AddRows /\ UNCHANGED unclear
            \/ Over(TRUE) /\ UNCHANGED tableVars
            \/ Over(TRUE) /\ unclear' /\ AddRows
         /\ UNCHANGED <<accepted, addVars, controlVars>>
<1> USE DEF Taken, Over, Unmoved, bufferVars
<1>1. CASE SelectEnd \/ SelectTick \/ SelectFlush
  BY <1>1 DEF SelectEnd, SelectTick, SelectFlush
<1>2. CASE CheckAndFlush \/ FinalTake
  BY <1>2 DEF CheckAndFlush, FinalTake, TakeBatch, TypeOK
<1>3. CASE WriteCommits
  BY <1>3 DEF WriteCommits, TypeOK
<1>4. ASSUME AttemptFails, UNCHANGED buffer, fpc \in {"write", "finalWrite"}
      PROVE  Unmoved \/ Over(TRUE)
  BY <1>4 DEF AttemptFails, CallbackFails, TypeOK
<1>5. CASE WriteFails
  BY <1>4, <1>5 DEF WriteFails
<1>6. CASE WriteUnclear
  BY <1>4, <1>6 DEF WriteUnclear
<1> QED
  BY <1>1, <1>2, <1>3, <1>5, <1>6 DEF FlusherStep

\* The flusher keeps the order of what was accepted.
LEMMA FlusherOrdered ==
  ASSUME Ordered, FlusherStep
  PROVE  Ordered'
<1>1. TypeOK'
  BY FlusherTypeOK DEF Ordered
<1>2. /\ flushed \in Seq(Messages) /\ batch \in Seq(Messages)
      /\ buffer \in Seq(Messages) /\ accepted = flushed \o batch \o buffer
  BY DEF Ordered, TypeOK, NothingLostInside
<1>3. ASSUME Taken, UNCHANGED accepted
      PROVE  NothingLostInside'
  <2>1. flushed \o << >> = flushed /\ (flushed \o buffer) \o << >> = flushed \o buffer
    <3>1. flushed \o buffer \in Seq(Messages)
      BY <1>2, ConcatProperties
    <3> QED
      BY <1>2, <3>1, ConcatEmptySeq
  <2>2. accepted = flushed \o << >> \o buffer
    BY <1>2, <1>3, Zenon DEF Taken
  <2>3. /\ accepted' = accepted /\ flushed' = flushed
        /\ batch' = buffer /\ buffer' = << >>
    BY <1>3 DEF Taken
  <2> QED
    BY <2>1, <2>2, <2>3, Zenon DEF NothingLostInside
<1>4. ASSUME NEW bad \in BOOLEAN, Over(bad), UNCHANGED accepted
      PROVE  NothingLostInside'
  <2>1. /\ flushed \o batch \in Seq(Messages)
        /\ (flushed \o batch) \o << >> = flushed \o batch
    <3>1. flushed \o batch \in Seq(Messages)
      BY <1>2, ConcatProperties
    <3> QED
      BY <3>1, ConcatEmptySeq
  <2>2. /\ accepted' = accepted /\ flushed' = flushed \o batch
        /\ batch' = << >> /\ buffer' = buffer
    BY <1>4 DEF Over, FlushOver
  <2> QED
    BY <1>2, <2>1, <2>2, Zenon DEF NothingLostInside
<1>5. ASSUME Unmoved, UNCHANGED accepted
      PROVE  NothingLostInside'
  BY <1>2, <1>5 DEF Unmoved, NothingLostInside
<1>6. NothingLostInside'
  BY <1>3, <1>4, <1>5, FlusherMoves DEF Ordered
<1> QED
  BY <1>1, <1>6 DEF Ordered

LEMMA AnyStepOrdered == Ordered /\ [AnyStep]_vars => Ordered'
<1> SUFFICES ASSUME Ordered, [AnyStep]_vars
             PROVE  Ordered'
  OBVIOUS
<1>1. CASE Flush \/ Stop \/ CancelContext
  BY <1>1 DEF Flush, Stop, CancelContext, Ordered, TypeOK, NothingLostInside, bufferVars,
              flusherVars, tableVars, addVars, controlVars
<1>2. CASE TickerFires
  BY <1>2 DEF TickerFires, Ordered, TypeOK, NothingLostInside, flusherVars, tableVars,
              addVars, controlVars
<1>3. CASE UNCHANGED vars
  BY <1>3 DEF vars, Ordered, TypeOK, NothingLostInside, bufferVars, flusherVars,
              tableVars, addVars, controlVars
<1> QED
  BY <1>1, <1>2, <1>3, AddCheckOrdered, AddLockedOrdered, FlusherOrdered DEF AnyStep

-----------------------------------------------------------------------------
\* Every step keeps the buffer bounded and a full batch signalled.
LEMMA NextBounds ==
  ASSUME BufferAssumption, TypeOK, MemoryBounded, FullIsSignalled, [AnyStep]_vars
  PROVE  MemoryBounded' /\ FullIsSignalled'
<1> USE DEF BufferAssumption, TypeOK, MemoryBounded, FullIsSignalled, FlusherPC, bufferVars, flusherVars,
        tableVars, addVars, controlVars
<1>0. /\ Len(buffer) \in Nat /\ Len(batch) \in Nat /\ MaxSize \in Nat \ {0}
      /\ Len(<< >>) = 0
  BY LenProperties, EmptySeq
<1>1. ASSUME NEW a \in Adders, NEW m \in Messages, AddCheck(a, m)
      PROVE  MemoryBounded' /\ FullIsSignalled'
  BY <1>1 DEF AddCheck
<1>2. ASSUME NEW a \in Adders, AddLocked(a)
      PROVE  MemoryBounded' /\ FullIsSignalled'
  <2>1. adding[a] \in Messages /\ UNCHANGED <<batch, fpc>>
    BY <1>2 DEF AddLocked
  <2>2. CASE Len(buffer) < 2 * MaxSize /\ buffer' = Append(buffer, adding[a])
             /\ flushCh' = (flushCh \/ Len(buffer') >= MaxSize)
    <3>1. Len(buffer') = Len(buffer) + 1
      BY <2>1, <2>2, AppendProperties
    <3>2. Len(buffer') >= MaxSize => flushCh'
      BY <2>2, Zenon
    <3>3. FullIsSignalled'
      BY <3>2, Zenon DEF FullIsSignalled
    <3>4. MemoryBounded'
      BY <1>0, <2>1, <2>2, <3>1
    <3> QED
      BY <3>3, <3>4
  <2>3. CASE UNCHANGED bufferVars
    BY <2>1, <2>3
  <2> QED
    BY <1>2, <2>2, <2>3 DEF AddLocked
<1>3. CASE Flush \/ Stop \/ CancelContext \/ TickerFires \/ UNCHANGED vars
  BY <1>3 DEF Flush, Stop, CancelContext, TickerFires, vars
<1>4. CASE SelectEnd \/ SelectTick \/ SelectFlush
  BY <1>4 DEF SelectEnd, SelectTick, SelectFlush, FlusherAt
<1>5. CASE CheckAndFlush
  \* A buffer left alone is empty or short of a batch.
  <2>1. fpc = "check" /\ UNCHANGED flushCh
    BY <1>5 DEF CheckAndFlush
  <2>2. ASSUME NEW old,
               IF buffer # << >> /\ ShouldFlush(old)
               THEN TakeBatch("write") /\ age' = 0
               ELSE fpc' = "select" /\ UNCHANGED <<batch, buffer, age>>
        PROVE  MemoryBounded' /\ FullIsSignalled'
    <3>1. CASE TakeBatch("write")
      BY <1>0, <2>1, <3>1 DEF TakeBatch
    <3>2. CASE /\ buffer = << >> \/ Len(buffer) < MaxSize
               /\ fpc' = "select" /\ UNCHANGED <<batch, buffer, age>>
      BY <1>0, <2>1, <3>2
    <3>3. CASE buffer # << >> /\ ShouldFlush(old)
      BY <2>2, <3>1, <3>3
    <3>4. CASE buffer = << >>
      BY <2>2, <3>2, <3>4
    <3>5. CASE ~ShouldFlush(old)
      <4>1. Len(buffer) < MaxSize
        BY <1>0, <3>5 DEF ShouldFlush
      <4> QED
        BY <2>2, <3>2, <3>5, <4>1
    <3> QED
      BY <3>3, <3>4, <3>5
  <2> QED
    BY <1>5, <2>2 DEF CheckAndFlush
<1>6. CASE FinalTake
  BY <1>0, <1>6 DEF FinalTake, TakeBatch
<1>7. CASE WriteCommits \/ WriteFails \/ WriteUnclear
  <2>1. UNCHANGED <<buffer, flushCh>> /\ fpc \in {"write", "finalWrite"}
    BY <1>7 DEF WriteCommits, WriteFails, WriteUnclear
  <2>2. \/ batch' = << >> /\ fpc' = IF fpc = "write" THEN "select" ELSE "done"
        \/ UNCHANGED <<batch, fpc>>
    BY <1>7 DEF WriteCommits, WriteFails, WriteUnclear, AttemptFails, CallbackFails,
                FlushOver
  <2> QED
    BY <1>0, <2>1, <2>2
<1> QED
  BY <1>1, <1>2, <1>3, <1>4, <1>5, <1>6, <1>7 DEF AnyStep, FlusherStep

LEMMA AnyStepSound == Sound /\ [AnyStep]_vars => Sound'
  BY AnyStepOrdered, NextBounds DEF Sound, Ordered

LEMMA SoundAlways == BufferAssumption /\ Spec => []Sound
  BY InitOrdered, NextIsAnyStep, AnyStepSound, PTL DEF Spec

\* Buffer and batch stay within twice the batch size, for any number of goroutines
\* that add while a batch is retried (batch_buffer.go:120).
THEOREM MemoryBoundedInvariant == BufferAssumption /\ Spec => []MemoryBounded
  BY SoundAlways, PTL DEF Sound

\* A full batch is always signalled while the flusher may wait, for any number of
\* goroutines that add and whatever signals were dropped (batch_buffer.go:131-137).
THEOREM FullIsSignalledInvariant == BufferAssumption /\ Spec => []FullIsSignalled
  BY SoundAlways, PTL DEF Sound

-----------------------------------------------------------------------------
\* Each message is added once: it is in one place only.
LEMMA AddCheckKeeps ==
  ASSUME IInv, NEW a \in Adders, NEW m \in Messages, Unseen(m), AddCheck(a, m)
  PROVE  Apart' /\ RowsInv'
<1>1. UNCHANGED <<buffer, batch, flushed, accepted, failed, rows, unclear>>
  BY DEF AddCheck, bufferVars, flusherVars, tableVars
<1>2. m \notin Held /\ \A b \in Adders : adding[b] # m
  BY AcceptedIsHeld DEF Unseen, IInv
<1>3. adding' = adding \/ adding' = [adding EXCEPT ![a] = m]
  BY DEF AddCheck
<1>4. Held' = Held /\ adding \in [Adders -> Messages \cup {NoMessage}]
  BY <1>1 DEF Held, IInv, Ordered, TypeOK
<1>5. \A b \in Adders : adding'[b] # NoMessage => adding'[b] \notin Held
  BY <1>2, <1>3, <1>4 DEF IInv, Apart
<1>6. \A b, c \in Adders : adding'[b] = adding'[c] /\ adding'[b] # NoMessage => b = c
  BY <1>2, <1>3, <1>4 DEF IInv, Apart
<1> QED
  BY <1>1, <1>4, <1>5, <1>6 DEF IInv, Apart, RowsInv

LEMMA AddLockedKeeps ==
  ASSUME IInv, NEW a \in Adders, AddLocked(a)
  PROVE  Apart' /\ RowsInv'
<1>1. /\ UNCHANGED <<batch, flushed, failed, rows, unclear>>
      /\ adding' = [adding EXCEPT ![a] = NoMessage]
      /\ adding \in [Adders -> Messages \cup {NoMessage}]
      /\ adding[a] \in Messages /\ adding[a] \notin Held
  BY DEF AddLocked, IInv, Ordered, TypeOK, Apart, flusherVars, tableVars
<1>2. RowsInv'
  BY <1>1 DEF IInv, RowsInv
<1>3. CASE UNCHANGED bufferVars
  BY <1>1, <1>2, <1>3 DEF IInv, Apart, Held, bufferVars
<1>4. CASE buffer' = Append(buffer, adding[a])
  <2>1. Range(buffer') = Range(buffer) \cup {adding[a]}
    BY <1>1, <1>4, RangeAppend DEF IInv, Ordered, TypeOK
  <2> QED
    BY <1>1, <1>2, <2>1 DEF IInv, Apart, Held
<1> QED
  BY <1>3, <1>4 DEF AddLocked

\* The flush of a batch ends with its rows in the table once, or not at all, as
\* nothing of the batch was flushed before.
LEMMA OverKeeps ==
  ASSUME IInv, NEW bad \in BOOLEAN, Over(bad), UNCHANGED adding,
         \/ bad /\ UNCHANGED <<rows, unclear>>
         \/ ~bad /\ AddRows /\ UNCHANGED unclear
         \/ unclear'
  PROVE  Apart' /\ RowsInv'
<1>1. /\ batch' = << >> /\ flushed' = flushed \o batch /\ UNCHANGED buffer
      /\ failed' = IF bad THEN failed \cup Range(batch) ELSE failed
  BY DEF Over, FlushOver
<1>2. Range(batch') = {} /\ Range(flushed') = Range(flushed) \cup Range(batch)
  BY <1>1, RangeEmpty, RangeConcatenation DEF IInv, Ordered, TypeOK
<1>3. Apart'
  BY <1>1, <1>2 DEF IInv, Apart, Held
<1>4. failed' \subseteq Range(flushed')
  BY <1>1, <1>2 DEF IInv, RowsInv
<1>5. ASSUME ~unclear', NEW m \in Messages
      PROVE  rows'[m] = IF m \in Range(flushed') \ failed' THEN 1 ELSE 0
  <2>1. ~unclear /\ rows[m] = IF m \in Range(flushed) \ failed THEN 1 ELSE 0
    BY <1>5 DEF IInv, RowsInv
  <2>2. /\ m \in Range(batch) => m \notin Range(flushed)
        /\ failed \subseteq Range(flushed)
    BY DEF IInv, Apart, RowsInv
  <2>3. CASE bad /\ UNCHANGED <<rows, unclear>>
    BY <1>1, <1>2, <2>1, <2>2, <2>3
  <2>4. CASE ~bad /\ AddRows
    <3>1. rows'[m] = rows[m] + IF m \in Range(batch) THEN 1 ELSE 0
      BY <2>4 DEF AddRows
    <3> QED
      BY <1>1, <1>2, <2>1, <2>2, <2>4, <3>1
  <2> QED
    BY <1>5, <2>3, <2>4
<1> QED
  BY <1>3, <1>4, <1>5 DEF RowsInv

LEMMA FlusherKeeps ==
  ASSUME IInv, FlusherStep
  PROVE  Apart' /\ RowsInv'
<1>1. UNCHANGED adding
  BY FlusherMoves DEF IInv, Ordered, addVars
<1>2. CASE Taken /\ UNCHANGED tableVars
  <2>1. Range(buffer') = {} /\ Range(batch') = Range(buffer) /\ Range(batch) = {}
    BY <1>2, RangeEmpty DEF Taken
  <2> QED
    BY <1>1, <1>2, <2>1 DEF Taken, IInv, Apart, Held, RowsInv, tableVars
<1>3. CASE Unmoved /\ (unclear' \/ UNCHANGED tableVars)
  BY <1>1, <1>3 DEF Unmoved, IInv, Apart, Held, RowsInv, tableVars
<1>4. CASE Over(FALSE) /\ AddRows /\ UNCHANGED unclear
  BY <1>1, <1>4, OverKeeps
<1>5. CASE Over(TRUE) /\ (unclear' \/ UNCHANGED tableVars)
  BY <1>1, <1>5, OverKeeps DEF tableVars
<1> QED
  BY <1>2, <1>3, <1>4, <1>5, FlusherMoves DEF IInv, Ordered

LEMMA NextIInv == IInv /\ [Next]_vars => IInv'
<1> SUFFICES ASSUME IInv, [Next]_vars
             PROVE  Apart' /\ RowsInv'
  BY NextIsAnyStep, AnyStepOrdered DEF IInv
<1>1. CASE Flush \/ Stop \/ CancelContext \/ TickerFires \/ UNCHANGED vars
  BY <1>1 DEF Flush, Stop, CancelContext, TickerFires, vars, bufferVars, flusherVars,
              tableVars, addVars, IInv, Apart, Held, RowsInv
<1> QED
  BY <1>1, AddCheckKeeps, AddLockedKeeps, FlusherKeeps DEF Next

\* The table has exactly one row for each message whose flush succeeded and none for
\* the others, unless a commit was reported as an error, and no message is lost or
\* out of order inside, for any number of goroutines that add and any limits
\* (batch_buffer.go:160-230, timescale_writer.go:148-226).
THEOREM RowsExactInvariant == BufferAssumption /\ Spec => []RowsExact
<1>1. IInv => RowsExact
  BY DEF IInv, Ordered, RowsInv, RowsExact
<1> QED
  BY <1>1, InitOrdered, NextIInv, PTL DEF Spec
=============================================================================
