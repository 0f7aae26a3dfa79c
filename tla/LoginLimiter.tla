------------------------------ MODULE LoginLimiter ------------------------------
(***************************************************************************)
(* AuthRateLimiter of the user service                                     *)
(* (internal/middleware/rate_limiter.go): at most LoginLimit requests to   *)
(* an authentication endpoint per Window, and a lockout of LockoutTime     *)
(* after LockoutLimit failed ones.  The keys of one identifier are         *)
(* modelled, since no two identifiers share a key.                         *)
(*                                                                         *)
(* With Redis the keys auth_rate:, failed_auth: and lockout: are read and  *)
(* written by separate commands, and requests interleave between them; a   *)
(* command may fail before or after its effect (Redis is away, or the      *)
(* client hung up, which cancels the request's context), and the limiter   *)
(* then lets the request pass.  Without Redis the same three registers are *)
(* in memory and each check or record is one critical section of mu.       *)
(*                                                                         *)
(* A key is [n, ttl]: its counter and the ticks until it expires, 0 for a  *)
(* key without expiry.                                                     *)
(***************************************************************************)
EXTENDS Naturals, FiniteSets

CONSTANTS Workers,       \* goroutines that serve requests
          LoginLimit, LockoutLimit,
          Window, LockoutTime,   \* in ticks
          MaxFaults      \* bound on commands that fail

\* What is assumed of the constants; the module that instantiates this one assumes it of
\* the values that it gives.
LoginAssumption == /\ IsFiniteSet(Workers)
                   /\ LoginLimit \in Nat /\ LockoutLimit \in Nat \ {0}
                   /\ Window \in Nat \ {0} /\ LockoutTime \in Nat \ {0}
                   /\ MaxFaults \in Nat

VARIABLES backend,    \* "redis" or "local", fixed when the limiter is made
          rate,       \* auth_rate:, or attempts and lastAttempt
          failed,     \* failed_auth:, or failedCount
          lockout,    \* ticks the lockout: key or lockedUntil has left, 0 if none
          pc,         \* where the middleware of each request is
          faults,     \* history: commands that failed, records that a crash cut off
          guesses     \* history: 401s and 403s since the last success, expiry or unlock

keys == <<rate, failed, lockout>>
vars == <<backend, keys, pc, faults, guesses>>

Absent == [n |-> 0, ttl |-> 0]
MaxFailed == LockoutLimit + Cardinality(Workers)

Init ==
  /\ backend \in {"redis", "local"}
  /\ rate = Absent /\ failed = Absent /\ lockout = 0
  /\ pc = [w \in Workers |-> "idle"]
  /\ faults = 0 /\ guesses = 0

GoTo(w, l) == pc' = [pc EXCEPT ![w] = l]

\* A command fails.
Fault == faults < MaxFaults /\ faults' = faults + 1

\* INCR of a counter, up to a bound beyond which nothing tells its values apart.
Incr(n, bound) == IF n < bound THEN n + 1 ELSE bound

-----------------------------------------------------------------------------
(* CheckAndIncrement.                                                      *)

\* A request to an authentication endpoint arrives.
Arrive(w) ==
  /\ pc[w] = "idle"
  /\ GoTo(w, "check")
  /\ UNCHANGED <<backend, keys, faults, guesses>>

\* Mutant of CheckLockout: a refused attempt starts the lockout anew.
CheckLockout_Rearms(w) ==
  /\ pc[w] = "check" /\ backend = "redis"
  /\ \/ lockout > 0 /\ lockout' = LockoutTime /\ GoTo(w, "idle") /\ UNCHANGED faults
     \/ lockout = 0 /\ GoTo(w, "rate") /\ UNCHANGED <<faults, lockout>>
     \/ Fault /\ GoTo(w, "rate") /\ UNCHANGED lockout
  /\ UNCHANGED <<backend, rate, failed, guesses>>

\* EXISTS lockout: the request is refused if it is there; an error does not refuse it.
CheckLockout(w) ==
  /\ pc[w] = "check" /\ backend = "redis"
  /\ \/ lockout > 0 /\ GoTo(w, "idle") /\ UNCHANGED faults
     \/ lockout = 0 /\ GoTo(w, "rate") /\ UNCHANGED faults
     \/ Fault /\ GoTo(w, "rate")
  /\ UNCHANGED <<backend, keys, guesses>>

\* What the script makes of auth_rate: INCR, and EXPIRE when the key is new.
Counted == [n   |-> Incr(rate.n, LoginLimit + 1),
            ttl |-> IF rate.n = 0 THEN Window ELSE rate.ttl]

\* The script runs in one piece; if it fails the request is let through.
CheckRate(w) ==
  /\ pc[w] = "rate"
  /\ \/ /\ rate' = Counted
        /\ GoTo(w, IF Counted.n > LoginLimit THEN "idle" ELSE "handler")
        /\ UNCHANGED faults
     \/ Fault /\ rate' \in {rate, Counted} /\ GoTo(w, "handler")
  /\ UNCHANGED <<backend, failed, lockout, guesses>>

\* checkLocal: every attempt, a refused one too, starts the window anew.
CheckLocal(w) ==
  LET n == IF rate.ttl = 0 THEN 1 ELSE Incr(rate.n, LoginLimit + 1) IN
  /\ pc[w] = "check" /\ backend = "local"
  /\ IF lockout > 0
     THEN GoTo(w, "idle") /\ UNCHANGED rate
     ELSE /\ rate' = [n |-> n, ttl |-> Window]
          /\ GoTo(w, IF n > LoginLimit THEN "idle" ELSE "handler")
  /\ UNCHANGED <<backend, failed, lockout, faults, guesses>>

-----------------------------------------------------------------------------
(* The handler's status decides what is recorded.                          *)

\* 401 and 403 are failed attempts, 200 and 201 clear them, nothing else counts.
Handler(w) ==
  /\ pc[w] = "handler"
  /\ \/ GoTo(w, "record") /\ guesses' = guesses + 1
     \/ GoTo(w, "clear") /\ UNCHANGED guesses
     \/ GoTo(w, "idle") /\ UNCHANGED guesses
  /\ UNCHANGED <<backend, keys, faults>>

\* Mutant of LocksOut: one failure too many.
LocksOut_OffByOne(n) == n > LockoutLimit

\* The failure with which the account is locked, and every one after it.
LocksOut(n) == n >= LockoutLimit

\* Mutant of FirstFailure: the counter is compared before its increment.
FirstFailure_Zero(n) == n = 0

FirstFailure(n) == n = 1

\* INCR failed_auth; if its reply is an error nothing more is done.
RecordIncr(w) ==
  LET n == Incr(failed.n, MaxFailed) IN
  /\ pc[w] = "record" /\ backend = "redis"
  /\ \/ /\ failed' = [failed EXCEPT !.n = n]
        /\ GoTo(w, CASE FirstFailure(n) -> "expire"
                     [] ~FirstFailure(n) /\ LocksOut(n) -> "lock"
                     [] OTHER -> "idle")
        /\ UNCHANGED faults
     \/ Fault /\ failed' \in {failed, [failed EXCEPT !.n = n]} /\ GoTo(w, "idle")
  /\ UNCHANGED <<backend, rate, lockout, guesses>>

\* EXPIRE is a second command, on whatever key is there by then; its error is ignored.
RecordExpire(w) ==
  /\ pc[w] = "expire"
  /\ \/ /\ failed' = IF failed.n = 0 THEN failed ELSE [failed EXCEPT !.ttl = LockoutTime]
        /\ UNCHANGED faults
     \/ Fault /\ UNCHANGED failed
  /\ GoTo(w, IF LocksOut(1) THEN "lock" ELSE "idle")
  /\ UNCHANGED <<backend, rate, lockout, guesses>>

\* SET lockout with its expiry; failed_auth stays as it is.
RecordLock(w) ==
  /\ pc[w] = "lock"
  /\ \/ lockout' = LockoutTime /\ UNCHANGED faults
     \/ Fault /\ lockout' \in {lockout, LockoutTime}
  /\ GoTo(w, "idle")
  /\ UNCHANGED <<backend, rate, failed, guesses>>

\* recordFailedLocal starts counting from zero when it locks, and forgets nothing else.
RecordLocal(w) ==
  LET n == failed.n + 1 IN
  /\ pc[w] = "record" /\ backend = "local"
  /\ IF LocksOut(n)
     THEN failed' = Absent /\ lockout' = LockoutTime
     ELSE failed' = [n |-> n, ttl |-> 0] /\ UNCHANGED lockout
  /\ GoTo(w, "idle")
  /\ UNCHANGED <<backend, rate, faults, guesses>>

\* ClearFailedAttempts: DEL failed_auth, or failedCount = 0; a lockout stays.
Clear(w) ==
  /\ pc[w] = "clear"
  /\ \/ failed' = Absent /\ guesses' = 0 /\ UNCHANGED faults
     \/ backend = "redis" /\ Fault /\ UNCHANGED <<failed, guesses>>
  /\ GoTo(w, "idle")
  /\ UNCHANGED <<backend, rate, lockout>>

-----------------------------------------------------------------------------
(* The clock, CleanupExpired and crashes.                                  *)

\* A key one tick later.
Aged(k) == CASE k.ttl = 0 -> k
             [] k.ttl = 1 -> Absent
             [] OTHER     -> [k EXCEPT !.ttl = @ - 1]

Tick ==
  /\ rate.ttl + failed.ttl + lockout > 0
  /\ rate' = Aged(rate) /\ failed' = Aged(failed)
  /\ lockout' = IF lockout > 0 THEN lockout - 1 ELSE 0
  /\ guesses' = IF lockout = 1 \/ failed.ttl = 1 THEN 0 ELSE guesses
  /\ UNCHANGED <<backend, pc, faults>>

\* CleanupExpired drops what was last attempted long ago and is not locked.
CleanupExpired ==
  /\ backend = "local" /\ rate.ttl = 0 /\ lockout = 0 /\ failed # Absent
  /\ rate' = Absent /\ failed' = Absent /\ guesses' = 0
  /\ UNCHANGED <<backend, lockout, pc, faults>>

\* Requests that owe Redis or the memory a record of their failure.
Unrecorded == {w \in Workers : pc[w] \in {"record", "expire", "lock"}}

\* The process dies; what was in its memory goes with it.
Crash ==
  /\ \E w \in Workers : pc[w] # "idle"
  /\ pc' = [w \in Workers |-> "idle"]
  /\ faults + Cardinality(Unrecorded) <= MaxFaults
  /\ faults' = faults + Cardinality(Unrecorded)
  /\ IF backend = "local"
     THEN rate' = Absent /\ failed' = Absent /\ lockout' = 0 /\ guesses' = 0
     ELSE UNCHANGED <<keys, guesses>>
  /\ UNCHANGED backend

Request(w) ==
  \/ Arrive(w) \/ CheckLockout(w) \/ CheckRate(w) \/ CheckLocal(w) \/ Handler(w)
  \/ RecordIncr(w) \/ RecordExpire(w) \/ RecordLock(w) \/ RecordLocal(w) \/ Clear(w)

Next == (\E w \in Workers : Request(w)) \/ Tick \/ CleanupExpired \/ Crash

\* Time passes.
Fairness == WF_vars(Tick)

Spec == Init /\ [][Next]_vars /\ Fairness

-----------------------------------------------------------------------------
(* Properties.                                                             *)

TypeOK ==
  /\ backend \in {"redis", "local"}
  /\ rate \in [n : 0 .. (LoginLimit + 1), ttl : 0 .. Window]
  /\ failed \in [n : 0 .. MaxFailed, ttl : 0 .. LockoutTime]
  /\ lockout \in 0 .. LockoutTime
  /\ pc \in [Workers -> {"idle", "check", "rate", "handler", "record", "expire", "lock", "clear"}]
  /\ faults \in 0 .. MaxFaults /\ guesses \in Nat

\* The lockout is a check and, much later, an act: requests that were checked before it
\* still reach the handler.  They are the only ones: between two successes, expiries or
\* unlocks there are at most LockoutLimit - 1 failures, one for each request in flight
\* and one for each command that failed.
GuessesBounded == guesses <= LockoutLimit - 1 + Cardinality(Workers) + faults

\* A failure is not held against a client for ever: failed_auth has an expiry, unless
\* the request that must set it is just about to or was kept from it by a failure.  The
\* registers keep their types.
FailuresAreForgotten ==
  /\ TypeOK
  /\ backend = "redis" /\ failed.n > 0 /\ failed.ttl = 0
       => faults > 0 \/ \E w \in Workers : pc[w] = "expire"

\* However often a locked client tries, its lockout ends.
LockoutEnds == lockout > 0 ~> lockout = 0
=============================================================================
