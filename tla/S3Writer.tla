------------------------------- MODULE S3Writer -------------------------------
(***************************************************************************)
(* The cold path of the data recorder, internal/writer/s3_writer.go: one   *)
(* WriteMessages call makes up to two Parquet objects, ticks first, whose  *)
(* keys name the kind and the second in which the call began, and uploads  *)
(* each with retries.  Calls come from the flushers of two BatchBuffers    *)
(* and overlap.  An upload is done, not done, or done with its answer      *)
(* lost.  An empty batch returns at once and is left out.                  *)
(***************************************************************************)
EXTENDS Naturals, FiniteSets

CONSTANTS Calls,      \* calls of WriteMessages
          Contents,   \* [Calls -> SUBSET Kinds], what its batch holds
          MaxRetries, \* config.MaxRetries, attempts of one upload
          MaxSecond,  \* bound: the clock
          Nobody      \* content of a key that has no object

Kinds == {"tick", "orderbook"}
Seconds == 0..MaxSecond

\* What is assumed of the constants; the module that instantiates this one assumes it of
\* the values that it gives.
S3Assumption == /\ Contents \in [Calls -> SUBSET Kinds]
                /\ MaxRetries \in Nat \ {0} /\ MaxSecond \in Nat
                /\ Nobody \notin Calls

VARIABLES now,      \* the clock, in whole seconds as generateS3Key prints it
          closed,   \* the writer was closed
          pc,       \* where each call is, or how it returned
          stamp,    \* the time it took when it began
          tries,    \* attempts of its present upload
          object    \* the bucket: whose records the object at a key holds

vars == <<now, closed, pc, stamp, tries, object>>

Returned == {"uploaded", "failed", "refused"}
TypeOK == /\ now \in Seconds /\ closed \in BOOLEAN
          /\ pc \in [Calls -> {"idle"} \cup Kinds \cup Returned]
          /\ stamp \in [Calls -> Seconds]
          /\ tries \in [Calls -> 0..MaxRetries - 1]
          /\ object \in [Kinds \X Seconds -> Calls \cup {Nobody}]

Init == /\ now = 0 /\ closed = FALSE
        /\ pc = [c \in Calls |-> "idle"]
        /\ stamp = [c \in Calls |-> 0]
        /\ tries = [c \in Calls |-> 0]
        /\ object = [key \in Kinds \X Seconds |-> Nobody]

-----------------------------------------------------------------------------
AfterTicks(c) == IF "orderbook" \in Contents[c] THEN "orderbook" ELSE "uploaded"
AfterCheck(c) == IF "tick" \in Contents[c] THEN "tick" ELSE AfterTicks(c)
Goes(c, place) == pc' = [pc EXCEPT ![c] = place] /\ tries' = [tries EXCEPT ![c] = 0]

\* WriteMessages reads `closed` under the lock, then the clock, and sorts the batch.
WriteMessages(c) ==
  /\ pc[c] = "idle"
  /\ IF closed THEN Goes(c, "refused") /\ UNCHANGED stamp
     ELSE /\ Goes(c, AfterCheck(c))
          /\ stamp' = [stamp EXCEPT ![c] = now]
  /\ UNCHANGED <<now, closed, object>>

\* Mutant of generateS3Key: each attempt names the second in which it is made.
generateS3Key_AtUpload(c) == <<pc[c], now>>

\* The key of the object that the call is uploading.
generateS3Key(c) == <<pc[c], stamp[c]>>

\* A record is refused by the Parquet encoder: the call ends before it uploads.
EncodingFails(c) ==
  /\ pc[c] \in Kinds /\ tries[c] = 0
  /\ Goes(c, "failed")
  /\ UNCHANGED <<now, closed, stamp, object>>

Puts(c) == object' = [object EXCEPT ![generateS3Key(c)] = c]

\* The object is stored, whatever was there before.
Uploaded(c) ==
  /\ pc[c] \in Kinds
  /\ Puts(c)
  /\ Goes(c, IF pc[c] = "tick" THEN AfterTicks(c) ELSE "uploaded")
  /\ UNCHANGED <<now, closed, stamp>>

\* Mutant of AttemptFailed: after the last attempt the loop falls through to success.
AttemptFailed_FallsThrough(c) ==
  IF tries[c] + 1 < MaxRetries
  THEN tries' = [tries EXCEPT ![c] = @ + 1] /\ UNCHANGED pc
  ELSE Goes(c, "uploaded")

\* Another attempt, until there were MaxRetries.
AttemptFailed(c) ==
  IF tries[c] + 1 < MaxRetries
  THEN tries' = [tries EXCEPT ![c] = @ + 1] /\ UNCHANGED pc
  ELSE Goes(c, "failed")

UploadFails(c) ==
  /\ pc[c] \in Kinds
  /\ UNCHANGED object \/ Puts(c)
  /\ AttemptFailed(c)
  /\ UNCHANGED <<now, closed, stamp>>

Close == /\ ~closed /\ closed' = TRUE
         /\ UNCHANGED <<now, pc, stamp, tries, object>>

Tick == /\ now < MaxSecond /\ now' = now + 1
        /\ UNCHANGED <<closed, pc, stamp, tries, object>>

Next == \/ \E c \in Calls : \/ WriteMessages(c) \/ EncodingFails(c)
                            \/ Uploaded(c) \/ UploadFails(c)
        \/ Close \/ Tick

Spec == Init /\ [][Next]_vars

-----------------------------------------------------------------------------
(* Properties.                                                             *)

\* A call leaves at most one object of a kind, however often it retried and whatever
\* answers were lost (s3_writer.go:299-319); and what it reported as uploaded is in the
\* bucket, unless another batch of the same kind, begun in the same second, was put over
\* it (s3_writer.go:284-295 names the second and nothing else).
ArchiveIsTrue ==
  /\ TypeOK
  /\ \A c \in Calls, k \in Kinds : Cardinality({s \in Seconds : object[<<k, s>>] = c}) <= 1
  /\ \A c \in Calls : \A k \in Contents[c] :
       pc[c] = "uploaded" \/ (pc[c] = "orderbook" /\ k = "tick") =>
         LET d == object[<<k, stamp[c]>>] IN
           d \in Calls /\ stamp[d] = stamp[c] /\ k \in Contents[d]
=============================================================================
